---- MODULE Spec2Model ----
(***************************************************************************)
(* AutomationHub web client: the script-tree view, the session holder and  *)
(* HTTP wrapper, the ticket detail workflow and the derived ticket views.  *)
(* The backend is a separate program; the part of it the client depends on *)
(* (ticket store, result-file and status endpoints) is modelled from the   *)
(* written specification and kept apart in the Srv* operators.             *)
(***************************************************************************)
EXTENDS Integers, Sequences, FiniteSets, TLC

(***************************************************************************)
(* Bounds                                                                  *)
(***************************************************************************)
MaxNodes == 3
MaxViewClock == 2
MaxViewEvents == 2
MaxViewCount == 2
MaxClock == 2
MaxTickets == 2
MaxEvents == 2
MaxPending == 2
MaxInFlight == 1
MaxOps == 1
MaxStatRequests == 2
MaxStatClock == 2

NoId == 0

(***************************************************************************)
(* State: the script tree view, the rendered ticket views, and the session *)
(* with its ticket workflow                                                *)
(***************************************************************************)
VARIABLES tree, selectedFolderId, rowNode, destinations, feedback, saving, th,
          treeObs, treeOps

treeVars ==
  <<tree, selectedFolderId, rowNode, destinations, feedback, saving, th, treeObs,
    treeOps>>

VARIABLES viewReq, viewFiles, detailCount, cardCount, rowCount, timeline,
          shownEvents, viewBanner

viewVars ==
  <<viewReq, viewFiles, detailCount, cardCount, rowCount, timeline, shownEvents,
    viewBanner>>

VARIABLES now, token, srv, auth, app, det, sub, sc, an, cr, dl, obs, ops

mainVars == <<now, token, srv, auth, app, det, sub, sc, an, cr, dl, obs, ops>>

VARIABLES statRequests, stats

statVars == <<statRequests, stats>>

VARIABLES errRes, errThrown

errVars == <<errRes, errThrown>>

VARIABLES fList, fSlots, fVer, fIssued, fObs

fetchVars == <<fList, fSlots, fVer, fIssued, fObs>>

VARIABLES lToken, lUser, lIsLoading, lSlots, lRuns, lObs

loginVars == <<lToken, lUser, lIsLoading, lSlots, lRuns, lObs>>

VARIABLES uRev, uSrv, uList, uPc, uTarget, uFailed, uBanner, uObs

usersVars == <<uRev, uSrv, uList, uPc, uTarget, uFailed, uBanner, uObs>>

VARIABLES gIsLoading, gUser, gReg, gForm, gMounts, gCall, gObs

formVars == <<gIsLoading, gUser, gReg, gForm, gMounts, gCall, gObs>>

VARIABLES kSrv, kResult, kPending, kSaving, kSub, kDel, kUpd, kPosts, kRuns, kBanner, kObs

stackVars == <<kSrv, kResult, kPending, kSaving, kSub, kDel, kUpd, kPosts, kRuns, kBanner, kObs>>

VARIABLES rSrv, rRequests, rProcessing, rCalls, rRuns, rObs

regsVars == <<rSrv, rRequests, rProcessing, rCalls, rRuns, rObs>>

\* The components modelled on their own, apart from the session workflow.
auxVars == <<fetchVars, loginVars, usersVars, formVars, stackVars, regsVars>>

vars == <<treeVars, viewVars, mainVars, statVars, errVars, auxVars>>

\* What an action of one component leaves alone: the other components.
notTreeVars == <<viewVars, mainVars, statVars, errVars, auxVars>>

notViewVars == <<treeVars, mainVars, statVars, errVars, auxVars>>

notMainVars == <<treeVars, viewVars, statVars, errVars, auxVars>>

notStatVars == <<treeVars, viewVars, mainVars, errVars, auxVars>>

notErrVars == <<treeVars, viewVars, mainVars, statVars, auxVars>>

coreVars == <<treeVars, viewVars, mainVars, statVars, errVars>>

notFetchVars == <<coreVars, loginVars, usersVars, formVars, stackVars, regsVars>>

notLoginVars == <<coreVars, fetchVars, usersVars, formVars, stackVars, regsVars>>

notUsersVars == <<coreVars, fetchVars, loginVars, formVars, stackVars, regsVars>>

notFormVars == <<coreVars, fetchVars, loginVars, usersVars, stackVars, regsVars>>

notStackVars == <<coreVars, fetchVars, loginVars, usersVars, formVars, regsVars>>

notRegsVars == <<coreVars, fetchVars, loginVars, usersVars, formVars, stackVars>>


(***************************************************************************)
(* Script tree view (ScriptLibraryWithFolders)                             *)
(***************************************************************************)
NodeIds == 1..MaxNodes

\* The trees GET /script-tree can return: node i hangs under a FOLDER with a
\* smaller id or at the top level (parent 0); one node may be named Unsorted.
TreeShapes ==
  { s \in [parent : [NodeIds -> 0..MaxNodes], type : [NodeIds -> {"FOLDER", "FILE"}],
           unsorted : 0..MaxNodes] :
      /\ \A i \in NodeIds : s.parent[i] < i
      /\ \A i \in NodeIds : s.parent[i] # 0 => s.type[s.parent[i]] = "FOLDER"
      /\ s.parent[1] = 0 /\ s.type[1] = "FOLDER"
      /\ s.unsorted # 0 => s.type[s.unsorted] = "FOLDER" }

RECURSIVE SortedSeq(_)
SortedSeq(S) ==
  IF S = {} THEN <<>>
  ELSE LET m == CHOOSE x \in S : \A y \in S : x <= y
       IN <<m>> \o SortedSeq(S \ {m})

RECURSIVE BuildNode(_, _)
BuildNode(s, i) ==
  LET kids == SortedSeq({ c \in NodeIds : s.parent[c] = i })
  IN [ id |-> i,
       name |-> IF s.unsorted = i THEN "Unsorted" ELSE "n",
       type |-> s.type[i],
       children |-> [ k \in 1..Len(kids) |-> BuildNode(s, kids[k]) ] ]

BuildTree(s) ==
  LET tops == SortedSeq({ c \in NodeIds : s.parent[c] = 0 })
  IN [ k \in 1..Len(tops) |-> BuildNode(s, tops[k]) ]

\* The responses of GET /script-tree.
Trees == { BuildTree(s) : s \in TreeShapes }

NoNode == [ id |-> NoId, name |-> "", type |-> "NONE", children |-> <<>> ]

RECURSIVE findNodeById(_, _)
findNodeById(nodes, id) ==
  IF id = NoId \/ nodes = <<>> THEN NoNode
  ELSE LET node == Head(nodes)
       IN IF node.id = id THEN node
          ELSE LET found == findNodeById(node.children, id)
               IN IF found # NoNode THEN found
                  ELSE findNodeById(Tail(nodes), id)

RECURSIVE findNodeByName(_, _)
findNodeByName(nodes, name) ==
  IF nodes = <<>> THEN NoNode
  ELSE LET node == Head(nodes)
       IN IF node.name = name THEN node
          ELSE LET found == findNodeByName(node.children, name)
               IN IF found # NoNode THEN found
                  ELSE findNodeByName(Tail(nodes), name)

RECURSIVE flattenFolders(_, _, _)
flattenFolders(nodes, depth, omitIds) ==
  IF nodes = <<>> THEN <<>>
  ELSE LET node == Head(nodes)
           here == IF node.type = "FOLDER" /\ node.id \notin omitIds
                   THEN <<[id |-> node.id, name |-> node.name, depth |-> depth]>>
                          \o flattenFolders(node.children, depth + 1, omitIds)
                   ELSE <<>>
       IN here \o flattenFolders(Tail(nodes), depth, omitIds)

RECURSIVE walk(_)
walk(current) ==
  UNION { {current.children[k].id} \cup walk(current.children[k]) :
            k \in 1..Len(current.children) }

collectDescendants(node) ==
  IF node = NoNode THEN {} ELSE walk(node)

\* The folder whose content is listed (currentFolder memo).
currentFolder ==
  LET unsortedFolder == findNodeByName(tree, "Unsorted")
      first == IF tree = <<>> THEN NoNode ELSE tree[1]
      fallback == IF unsortedFolder # NoNode THEN unsortedFolder ELSE first
  IN IF selectedFolderId = NoId THEN fallback
     ELSE LET found == findNodeById(tree, selectedFolderId)
          IN IF found # NoNode THEN found ELSE fallback

childFolders ==
  SelectSeq(currentFolder.children, LAMBDA n : n.type = "FOLDER")

scriptNodes ==
  SelectSeq(currentFolder.children, LAMBDA n : n.type = "FILE")

\* The 'move to' options of one listed row.
rowDestinations(kind, node) ==
  IF kind = "file" THEN flattenFolders(tree, 0, {})
  ELSE flattenFolders(tree, 0, collectDescendants(node))

SeqRange(s) == { s[k] : k \in 1..Len(s) }

DestIds(dests) == { d.id : d \in SeqRange(dests) }

NoFeedback == "null"

\* The one create/delete handler of the view that is awaiting a response.
TreeHandlerIdle ==
  [ pc |-> "idle", by |-> "", nodeId |-> NoId, sel |-> NoId, fallback |-> NoId ]

\* The last request of the view on the wire.
NoTreeObs == [ call |-> "", confirmed |-> FALSE, status |-> "" ]

TreeInit ==
  /\ tree = <<>>
  /\ selectedFolderId = NoId
  /\ rowNode = NoNode
  /\ destinations = <<>>
  /\ feedback = NoFeedback
  /\ saving = FALSE
  /\ th = TreeHandlerIdle
  /\ treeObs = NoTreeObs
  /\ treeOps = 0

\* loadTree: the response replaces the tree; the first load selects Unsorted
\* (or the first top-level node).
loadTree ==
  /\ \E data \in Trees :
       LET unsorted == findNodeByName(data, "Unsorted")
           defaultId == IF unsorted # NoNode THEN unsorted.id ELSE data[1].id
       IN /\ tree' = data
          /\ selectedFolderId' =
               IF Len(data) > 0 /\ selectedFolderId = NoId THEN defaultId
               ELSE selectedFolderId
          /\ rowNode' = NoNode
          /\ destinations' = <<>>
  /\ treeObs' = NoTreeObs
  /\ UNCHANGED <<feedback, saving, th, treeOps>>
  /\ UNCHANGED notTreeVars

\* Click on a listed folder row, or on a folder in the side tree.
SelectFolder ==
  /\ \E f \in SeqRange(flattenFolders(tree, 0, {})) :
       /\ selectedFolderId' = f.id
       /\ rowNode' = NoNode
       /\ destinations' = <<>>
       /\ UNCHANGED tree
  /\ treeObs' = NoTreeObs
  /\ UNCHANGED <<feedback, saving, th, treeOps>>
  /\ UNCHANGED notTreeVars

\* Rendering of one row of the current folder's listing.
RenderFolderRow ==
  /\ \E node \in SeqRange(childFolders) :
       /\ rowNode' = node
       /\ destinations' = rowDestinations("folder", node)
       /\ UNCHANGED <<tree, selectedFolderId>>
  /\ treeObs' = NoTreeObs
  /\ UNCHANGED <<feedback, saving, th, treeOps>>
  /\ UNCHANGED notTreeVars

RenderFileRow ==
  /\ \E node \in SeqRange(scriptNodes) :
       /\ rowNode' = node
       /\ destinations' = rowDestinations("file", node)
       /\ UNCHANGED <<tree, selectedFolderId>>
  /\ treeObs' = NoTreeObs
  /\ UNCHANGED <<feedback, saving, th, treeOps>>
  /\ UNCHANGED notTreeVars

MaxTreeInFlight == 1
MaxTreeOps == 1

TreeInFlight == IF th.pc = "idle" THEN 0 ELSE 1

\* A create or delete handler may be started.
CanStartTree == TreeInFlight < MaxTreeInFlight /\ treeOps < MaxTreeOps

rootFolderId == IF tree = <<>> THEN NoId ELSE tree[1].id

unsortedFolder == findNodeByName(tree, "Unsorted")

\* unsortedFolder?.id || rootFolderId
fallbackFolderId ==
  IF unsortedFolder # NoNode THEN unsortedFolder.id ELSE rootFolderId

TreeSent(call) == [ call |-> call, confirmed |-> FALSE, status |-> "sent" ]

TreeAnswered(status) == [ treeObs EXCEPT !.status = status ]

\* buildError on 401/403: the session is dropped and the page reloaded; the
\* view starts again from its initial state.
TreeReload ==
  /\ tree' = <<>>
  /\ selectedFolderId' = NoId
  /\ rowNode' = NoNode
  /\ destinations' = <<>>
  /\ feedback' = NoFeedback
  /\ saving' = FALSE
  /\ th' = TreeHandlerIdle

\* Submit of the 'Create New Folder' form with a non-empty name: the POST
\* is sent for the chosen parent, else the selected folder, else the fallback.
handleCreateFolder ==
  /\ CanStartTree
  /\ treeOps' = treeOps + 1
  /\ \E newFolderName \in {"", "n"} :
     \E newFolderParent \in {NoId} \cup DestIds(flattenFolders(tree, 0, {})) :
       /\ newFolderName # ""
       /\ th' = [ pc |-> "post", by |-> "handleCreateFolder",
                  nodeId |-> IF newFolderParent # NoId THEN newFolderParent
                             ELSE IF selectedFolderId # NoId THEN selectedFolderId
                             ELSE fallbackFolderId,
                  sel |-> selectedFolderId, fallback |-> fallbackFolderId ]
  /\ saving' = TRUE
  /\ treeObs' = TreeSent("POST /script-tree/folder")
  /\ UNCHANGED <<tree, selectedFolderId, rowNode, destinations, feedback>>
  /\ UNCHANGED notTreeVars

\* Faulty variant: the failure also drops the selection.
CreateFolderFailedReset(message) ==
  /\ feedback' = IF message # "" THEN message ELSE "Failed to create folder"
  /\ saving' = FALSE
  /\ th' = TreeHandlerIdle
  /\ selectedFolderId' = NoId
  /\ UNCHANGED <<tree, rowNode, destinations>>

\* catch and finally of handleCreateFolder.
CreateFolderFailed(message) ==
  /\ feedback' = IF message # "" THEN message ELSE "Failed to create folder"
  /\ saving' = FALSE
  /\ th' = TreeHandlerIdle
  /\ UNCHANGED <<tree, selectedFolderId, rowNode, destinations>>

\* The POST of handleCreateFolder is answered.
CreateFolderResolve ==
  /\ th.pc = "post"
  /\ \E o \in {"ok", "auth", "err"} :
       /\ treeObs' = TreeAnswered(o)
       /\ CASE o = "ok" ->
                 /\ th' = [ th EXCEPT !.pc = "load" ]
                 /\ UNCHANGED <<tree, selectedFolderId, rowNode, destinations,
                                feedback, saving>>
            [] o = "auth" -> TreeReload
            [] o = "err" -> \E message \in {"", "Parent folder not found"} :
                              CreateFolderFailed(message)
  /\ UNCHANGED treeOps
  /\ UNCHANGED notTreeVars

\* Click on a delete button (side tree or listing row): the DELETE is sent
\* at once.
deleteNode ==
  /\ CanStartTree
  /\ treeOps' = treeOps + 1
  /\ \E node \in SeqRange(childFolders) \cup SeqRange(scriptNodes) :
       th' = [ pc |-> "delete", by |-> "deleteNode", nodeId |-> node.id,
               sel |-> selectedFolderId, fallback |-> fallbackFolderId ]
  /\ saving' = TRUE
  /\ treeObs' = TreeSent("DELETE /script-tree/:id")
  /\ UNCHANGED <<tree, selectedFolderId, rowNode, destinations, feedback>>
  /\ UNCHANGED notTreeVars

\* The DELETE of deleteNode is answered.
DeleteResolve ==
  /\ th.pc = "delete"
  /\ \E o \in {"ok", "auth", "err"} :
       /\ treeObs' = TreeAnswered(o)
       /\ CASE o = "ok" ->
                 /\ th' = [ th EXCEPT !.pc = "load" ]
                 /\ UNCHANGED <<tree, selectedFolderId, rowNode, destinations,
                                feedback, saving>>
            [] o = "auth" -> TreeReload
            [] o = "err" ->
                 /\ \E message \in {"", "Not found"} :
                      feedback' = IF message # "" THEN message
                                  ELSE "Failed to delete item"
                 /\ saving' = FALSE
                 /\ th' = TreeHandlerIdle
                 /\ UNCHANGED <<tree, selectedFolderId, rowNode, destinations>>
  /\ UNCHANGED treeOps
  /\ UNCHANGED notTreeVars

\* The selection after the handler's loadTree: the response's default when
\* the handler saw no selection; deleteNode then moves away from a deleted
\* selection.
SelectionAfterLoad(data, loaded) ==
  LET unsorted == findNodeByName(data, "Unsorted")
      defaultId == IF unsorted # NoNode THEN unsorted.id ELSE data[1].id
      bySel == IF loaded /\ Len(data) > 0 /\ th.sel = NoId THEN defaultId
               ELSE selectedFolderId
  IN IF th.by = "deleteNode" /\ th.nodeId = th.sel THEN th.fallback ELSE bySel

\* The loadTree awaited by handleCreateFolder and deleteNode is answered;
\* loadTree catches its own failure, the handler ends either way.
HandlerLoadResolve ==
  /\ th.pc = "load"
  /\ \E o \in {"ok", "auth", "err"} :
       /\ treeObs' = [ call |-> "GET /script-tree", confirmed |-> FALSE,
                       status |-> o ]
       /\ CASE o = "ok" ->
                 \E data \in Trees :
                   /\ tree' = data
                   /\ selectedFolderId' = SelectionAfterLoad(data, TRUE)
                   /\ rowNode' = NoNode
                   /\ destinations' = <<>>
                   /\ saving' = FALSE
                   /\ th' = TreeHandlerIdle
                   /\ UNCHANGED feedback
            [] o = "auth" -> TreeReload
            [] o = "err" ->
                 /\ selectedFolderId' = SelectionAfterLoad(tree, FALSE)
                 /\ saving' = FALSE
                 /\ th' = TreeHandlerIdle
                 /\ UNCHANGED <<tree, rowNode, destinations, feedback>>
  /\ UNCHANGED treeOps
  /\ UNCHANGED notTreeVars

TreeNext ==
  \/ loadTree \/ SelectFolder \/ RenderFolderRow \/ RenderFileRow
  \/ handleCreateFolder \/ CreateFolderResolve
  \/ deleteNode \/ DeleteResolve \/ HandlerLoadResolve


\* C1: for every FOLDER row n of the current folder, the offered move
\* destinations contain neither n's id nor the id of a descendant of n.
C1_NoSelfNoDescendant ==
  rowNode.type = "FOLDER" =>
    DestIds(destinations) \cap ({rowNode.id} \cup collectDescendants(rowNode)) = {}

\* C13: every delete call on the wire was preceded by a confirmation that
\* the user accepted.
C13_DeleteConfirmed ==
  treeObs.call = "DELETE /script-tree/:id" => treeObs.confirmed

\* The POST of handleCreateFolder comes back with one of the given outcomes.
CreateFolderEnds(outcomes) ==
  /\ th.pc = "post"
  /\ th.by = "handleCreateFolder"
  /\ treeObs'.status \in outcomes

\* What C18 says of a failed folder creation: the error is shown as feedback,
\* tree and selected folder are as before the attempt.
CreateFailureContained ==
  /\ feedback' # NoFeedback
  /\ saving' = FALSE
  /\ tree' = tree
  /\ selectedFolderId' = selectedFolderId

Undef == -1

RequestStatus == {"PENDING", "IN_PROGRESS", "COMPLETED", "REJECTED", "RETURNED"}

EventTypes == {"SUBMISSION", "RESUBMISSION"}

\* Sequences over S of length at most n.
SeqsUpTo(S, n) == UNION { [1..k -> S] : k \in 0..n }

\* What GET /requests[/:id] can carry in the fields the views read:
\* submissionCount and submissionEvents are both optional (Undef, hasEvents).
ViewEvents ==
  [ eventType : EventTypes, createdAt : 1..MaxViewClock, addedFiles : {1} ]

ViewTickets ==
  [ status : RequestStatus,
    createdAt : 1..MaxViewClock,
    updatedAt : 0..MaxViewClock,
    submissionCount : {Undef} \cup 0..MaxViewCount,
    hasEvents : BOOLEAN,
    submissionEvents : SeqsUpTo(ViewEvents, MaxViewEvents) ]

Max(a, b) == IF a >= b THEN a ELSE b

\* (req.submissionEvents || [])
EventsOrEmpty(req) == IF req.hasEvents THEN req.submissionEvents ELSE <<>>

\* (a, b) => a.createdAt - b.createdAt
cmpEvents(a, b) == a.createdAt - b.createdAt

\* Array.prototype.sort is stable: an element goes behind every element that
\* does not compare greater than it.
RECURSIVE InsertEvent(_, _)
InsertEvent(s, x) ==
  IF s = <<>> THEN <<x>>
  ELSE IF cmpEvents(s[Len(s)], x) <= 0 THEN Append(s, x)
       ELSE Append(InsertEvent(SubSeq(s, 1, Len(s) - 1), x), s[Len(s)])

RECURSIVE SortEvents(_)
SortEvents(s) ==
  IF s = <<>> THEN <<>>
  ELSE InsertEvent(SortEvents(SubSeq(s, 1, Len(s) - 1)), s[Len(s)])

submissionEventsOf(req) == SortEvents(EventsOrEmpty(req))

\* Math.max(localReq.submissionCount ?? 0, submissionEvents.length)
detailSubmissionCount(req) ==
  Max(IF req.submissionCount = Undef THEN 0 ELSE req.submissionCount,
      Len(submissionEventsOf(req)))

\* req.submissionCount ?? req.submissionEvents?.length ?? 0
cardSubmissionCount(req) ==
  IF req.submissionCount # Undef THEN req.submissionCount
  ELSE IF req.hasEvents THEN Len(req.submissionEvents)
  ELSE 0

rowSubmissionCount(req) ==
  IF req.submissionCount # Undef THEN req.submissionCount
  ELSE IF req.hasEvents THEN Len(req.submissionEvents)
  ELSE 0

\* a || b on timestamps
OrElse(a, b) == IF a # 0 THEN a ELSE b

normalizedEvents(req, nFiles, clock) ==
  LET evs == submissionEventsOf(req)
      cnt == detailSubmissionCount(req)
      tsBase == OrElse(req.updatedAt, OrElse(req.createdAt, clock))
  IN IF Len(evs) = 0 /\ cnt > 0
     THEN [ i \in 1..cnt |->
              IF i = 1
              THEN [eventType |-> "SUBMISSION", createdAt |-> tsBase,
                    addedFiles |-> nFiles]
              ELSE [eventType |-> "RESUBMISSION", createdAt |-> tsBase + (i - 1),
                    addedFiles |-> 0] ]
     ELSE evs

\* Faulty variant: RETURNED falls into the REJECTED branch.
statusTitleRejected(status) ==
  CASE status = "COMPLETED" -> "Completed"
    [] status = "RETURNED" -> "Rejected"
    [] status = "IN_PROGRESS" -> "In Progress"
    [] status = "PENDING" -> "Pending"
    [] status = "REJECTED" -> "Rejected"
    [] OTHER -> ""

statusTitle(status) ==
  CASE status = "COMPLETED" -> "Completed"
    [] status = "RETURNED" -> "Returned to Developer"
    [] status = "IN_PROGRESS" -> "In Progress"
    [] status = "PENDING" -> "Pending"
    [] status = "REJECTED" -> "Rejected"
    [] OTHER -> ""

StatusOrder == 999

\* Number of RESUBMISSION events among the first k.
RECURSIVE resubNumber(_, _)
resubNumber(evs, k) ==
  IF k = 0 THEN 0
  ELSE resubNumber(evs, k - 1) + (IF evs[k].eventType = "RESUBMISSION" THEN 1 ELSE 0)

\* The items in the order they are pushed.
timelinePushed(req, nFiles, clock) ==
  LET evs == normalizedEvents(req, nFiles, clock)
      created == <<[ title |-> "Request Submitted", n |-> 0,
                     timestamp |-> req.createdAt, order |-> 0 ]>>
      subs == [ k \in 1..Len(evs) |->
                 IF evs[k].eventType = "RESUBMISSION"
                 THEN [ title |-> "Resubmission", n |-> resubNumber(evs, k),
                        timestamp |-> evs[k].createdAt, order |-> k ]
                 ELSE [ title |-> "Files Submitted", n |-> 0,
                        timestamp |-> evs[k].createdAt, order |-> k ] ]
      statusTs == OrElse(req.updatedAt, req.createdAt)
      st == IF statusTitle(req.status) # ""
            THEN <<[ title |-> statusTitle(req.status), n |-> 0,
                     timestamp |-> statusTs, order |-> StatusOrder ]>>
            ELSE <<>>
  IN created \o subs \o st

\* Faulty variant: newest first.
cmpTimelineDescending(a, b) ==
  IF a.timestamp = b.timestamp THEN a.order - b.order
  ELSE b.timestamp - a.timestamp

cmpTimeline(a, b) ==
  IF a.timestamp = b.timestamp THEN a.order - b.order
  ELSE a.timestamp - b.timestamp

RECURSIVE InsertItem(_, _)
InsertItem(s, x) ==
  IF s = <<>> THEN <<x>>
  ELSE IF cmpTimeline(s[Len(s)], x) <= 0 THEN Append(s, x)
       ELSE Append(InsertItem(SubSeq(s, 1, Len(s) - 1), x), s[Len(s)])

RECURSIVE SortItems(_)
SortItems(s) ==
  IF s = <<>> THEN <<>>
  ELSE InsertItem(SortItems(SubSeq(s, 1, Len(s) - 1)), s[Len(s)])

timelineItems(req, nFiles, clock) == SortItems(timelinePushed(req, nFiles, clock))

NoReq == [ status |-> "NONE", createdAt |-> 0, updatedAt |-> 0,
           submissionCount |-> Undef, hasEvents |-> FALSE,
           submissionEvents |-> <<>> ]

ViewInit ==
  /\ viewReq \in ViewTickets
  /\ viewFiles \in 0..1
  /\ detailCount = Undef
  /\ cardCount = Undef
  /\ rowCount = Undef
  /\ timeline = <<>>
  /\ shownEvents = <<>>
  /\ viewBanner = ""

\* RequestDetail render: submission count and timeline of the local ticket.
RenderDetail ==
  /\ detailCount = Undef
  /\ detailCount' = detailSubmissionCount(viewReq)
  /\ timeline' = timelineItems(viewReq, viewFiles, MaxViewClock)
  /\ shownEvents' = normalizedEvents(viewReq, viewFiles, MaxViewClock)
  /\ UNCHANGED <<viewReq, viewFiles, cardCount, rowCount, viewBanner>>
  /\ UNCHANGED notViewVars

\* DeveloperPortal RequestCard render.
RenderCard ==
  /\ cardCount = Undef
  /\ cardCount' = cardSubmissionCount(viewReq)
  /\ UNCHANGED <<viewReq, viewFiles, detailCount, rowCount, timeline, shownEvents,
                 viewBanner>>
  /\ UNCHANGED notViewVars

\* RequesterPortal table row render.
RenderRow ==
  /\ rowCount = Undef
  /\ rowCount' = rowSubmissionCount(viewReq)
  /\ UNCHANGED <<viewReq, viewFiles, detailCount, cardCount, timeline, shownEvents,
                 viewBanner>>
  /\ UNCHANGED notViewVars

\* Remove button of a saved file in the rendered detail view, with the
\* render that follows. A file without an id is dropped from the local stack;
\* otherwise DELETE is sent and, when it succeeds, the ticket is read again:
\* it comes back with that file gone and is otherwise the one shown.
handleRemoveExistingFile ==
  /\ detailCount # Undef
  /\ viewFiles > 0
  /\ \E resolvedId \in BOOLEAN, o \in {"ok", "err"} :
       IF ~resolvedId
       THEN /\ viewFiles' = viewFiles - 1
            /\ viewBanner' = "Removed from stack."
       ELSE IF o = "ok"
            THEN /\ viewFiles' = viewFiles - 1
                 /\ UNCHANGED viewBanner
            ELSE /\ viewBanner' = "Failed to delete file"
                 /\ UNCHANGED viewFiles
  /\ timeline' = timelineItems(viewReq, viewFiles', MaxViewClock)
  /\ shownEvents' = normalizedEvents(viewReq, viewFiles', MaxViewClock)
  /\ UNCHANGED <<viewReq, detailCount, cardCount, rowCount>>
  /\ UNCHANGED notViewVars

ViewNext == RenderDetail \/ RenderCard \/ RenderRow \/ handleRemoveExistingFile

ViewIdle ==
  /\ viewReq = NoReq
  /\ viewFiles = 0
  /\ detailCount = Undef
  /\ cardCount = Undef
  /\ rowCount = Undef
  /\ timeline = <<>>
  /\ shownEvents = <<>>
  /\ viewBanner = ""

EventCount(req) == Len(EventsOrEmpty(req))

ItemsTitled(items, t) == { k \in 1..Len(items) : items[k].title = t }

SubmissionItems(items) ==
  { k \in 1..Len(items) : items[k].title \in {"Files Submitted", "Resubmission"} }

\* Non-decreasing timestamps; among equal timestamps creation first,
\* submissions in occurrence order, status entry last.
TimelineOrdered(items) ==
  \A i, j \in 1..Len(items) :
    i < j =>
      /\ items[i].timestamp <= items[j].timestamp
      /\ items[i].timestamp = items[j].timestamp =>
           /\ items[j].title # "Request Submitted"
           /\ items[i].order # StatusOrder
           /\ items[i].order < items[j].order

TimelineShape(items, req, nSubmissions) ==
  /\ Cardinality(ItemsTitled(items, "Request Submitted")) = 1
  /\ Cardinality(ItemsTitled(items, statusTitle(req.status))) = 1
  /\ Cardinality(SubmissionItems(items)) = nSubmissions
  /\ Len(items) = nSubmissions + 2

\* C8 as stated: one creation entry, one entry per submission event of the
\* ticket, one current-status entry, in timestamp order with the fixed ties.
C8_TimelineOnePerEvent ==
  timeline # <<>> =>
    /\ TimelineShape(timeline, viewReq, EventCount(viewReq))
    /\ TimelineOrdered(timeline)

\* C8 amended: the submission entries are those of the normalized events: the
\* ticket's events, or, when it has none and its submission count is
\* positive, one synthetic entry per counted submission.
C8_TimelineOnePerNormalizedEvent ==
  timeline # <<>> =>
    /\ TimelineShape(timeline, viewReq,
                     IF EventCount(viewReq) = 0
                     THEN Max(viewReq.submissionCount, 0)
                     ELSE EventCount(viewReq))
    /\ TimelineOrdered(timeline)

C8_Witness ==
  /\ Len(timeline) = 4
  /\ EventCount(viewReq) = 2
  /\ timeline[1].timestamp = timeline[4].timestamp

C8_SyntheticWitness ==
  /\ Len(timeline) = 4
  /\ EventCount(viewReq) = 0


\* Two event lists agree in number, in types and in each addedFiles count.
SameEventsShown(a, b) ==
  /\ Len(a) = Len(b)
  /\ \A k \in 1..Len(a) :
       /\ a[k].eventType = b[k].eventType
       /\ a[k].addedFiles = b[k].addedFiles

\* C20: a step that deletes a saved result file leaves the submission events
\* shown for the ticket as they were: same number, same types, same
\* addedFiles counts.
C20_DeletionKeepsEvents ==
  [][viewFiles' < viewFiles => SameEventsShown(shownEvents', shownEvents)]_vars

(***************************************************************************)
(* Session, HTTP wrapper, ticket list and ticket detail workflow           *)
(***************************************************************************)
TicketIds == 1..MaxTickets

NoToken == "none"

Token == "rah_access_token"

NoUser == "NONE"

DEVELOPER_ROLE == "DEVELOPER"

EMPLOYEE_ROLE == "EMPLOYEE"

Roles == {DEVELOPER_ROLE, EMPLOYEE_ROLE}

\* Outcome of one HTTP exchange: 2xx, 401/403, or any other failure.
Outcomes == {"ok", "auth", "err"}

NoTicket ==
  [ exists |-> FALSE, id |-> NoId, status |-> "NONE", createdAt |-> 0,
    updatedAt |-> 0, submissionCount |-> Undef, hasEvents |-> FALSE,
    submissionEvents |-> <<>>, nFiles |-> 0, aiAnalysis |-> FALSE ]

(***************************************************************************)
(* Backend, as far as the client depends on it (from the specification)    *)
(***************************************************************************)
\* POST /requests: the server assigns id and timestamps and files the ticket
\* as PENDING; the counters are taken from the body when it carries them.
SrvCreate(id, body, t) ==
  [ NoTicket EXCEPT !.exists = TRUE, !.id = id, !.status = "PENDING",
      !.createdAt = t, !.updatedAt = t,
      !.submissionCount = IF body.submissionCount = Undef THEN 0
                          ELSE body.submissionCount,
      !.hasEvents = TRUE ]

\* PUT /requests/:id: status and analysis fields are stored, updatedAt set.
SrvPut(tk, body, t) ==
  [ tk EXCEPT !.status = body.status, !.aiAnalysis = body.aiAnalysis,
              !.updatedAt = t ]

\* POST /requests/:id/result-files: the batch is stored and exactly one
\* SubmissionEvent is appended, SUBMISSION for the first, else RESUBMISSION.
SrvPostFiles(tk, n, t) ==
  LET evs == EventsOrEmpty(tk)
      ev == [ eventType |-> IF Len(evs) = 0 THEN "SUBMISSION" ELSE "RESUBMISSION",
              createdAt |-> t, addedFiles |-> n ]
  IN [ tk EXCEPT !.nFiles = tk.nFiles + n,
                 !.hasEvents = TRUE,
                 !.submissionEvents = Append(evs, ev),
                 !.submissionCount = Max(Max(tk.submissionCount, 0) + 1, Len(evs) + 1) ]

\* Tickets already stored when the client starts.
SeedTickets ==
  { [ NoTicket EXCEPT !.exists = TRUE, !.id = 1, !.status = "PENDING",
        !.createdAt = 1, !.updatedAt = 1, !.submissionCount = 0,
        !.hasEvents = TRUE ],
    [ NoTicket EXCEPT !.exists = TRUE, !.id = 1, !.status = "IN_PROGRESS",
        !.createdAt = 1, !.updatedAt = 1, !.submissionCount = 0,
        !.hasEvents = TRUE ],
    [ NoTicket EXCEPT !.exists = TRUE, !.id = 1, !.status = "RETURNED",
        !.createdAt = 1, !.updatedAt = 1, !.submissionCount = 1,
        !.hasEvents = TRUE, !.nFiles = 1,
        !.submissionEvents = <<[ eventType |-> "SUBMISSION", createdAt |-> 1,
                                 addedFiles |-> 1 ]>> ],
    [ NoTicket EXCEPT !.exists = TRUE, !.id = 1, !.status = "COMPLETED",
        !.createdAt = 1, !.updatedAt = 1, !.submissionCount = 1,
        !.hasEvents = TRUE, !.nFiles = 1,
        !.submissionEvents = <<[ eventType |-> "SUBMISSION", createdAt |-> 1,
                                 addedFiles |-> 1 ]>> ] }

(***************************************************************************)
(* Client state                                                            *)
(***************************************************************************)
AuthBoot == [ user |-> NoUser, isLoading |-> TRUE, pc |-> "check" ]

NoRequests == [ i \in TicketIds |-> NoTicket ]

AppBoot ==
  [ requests |-> NoRequests, selectedRequest |-> NoTicket,
    currentView |-> "DASHBOARD", fetching |-> 0, upd |-> NoId,
    pollTimers |-> 0 ]

DetIdle ==
  [ mounted |-> FALSE, localReq |-> NoTicket, resultFiles |-> 0,
    pendingFiles |-> 0, isSavingResults |-> FALSE, banner |-> "",
    analyzing |-> FALSE, refreshing |-> FALSE ]

\* useState initialisers of RequestDetail plus the two mount effects.
DetMount(req, role) ==
  [ DetIdle EXCEPT !.mounted = TRUE, !.localReq = req,
      !.resultFiles = req.nFiles, !.refreshing = (role = DEVELOPER_ROLE) ]

\* useEffect([request]): the prop replaces the local copies and empties the
\* pending buffer.
DetSync(d, req) ==
  [ d EXCEPT !.localReq = req, !.resultFiles = req.nFiles, !.pendingFiles = 0 ]

HandlerIdle ==
  [ pc |-> "idle", by |-> "", req |-> NoTicket, from |-> "", batch |-> 0,
    base |-> 0, live |-> FALSE ]

\* What the last step put on, or took off, the wire.
NoObs ==
  [ call |-> "", via |-> "", status |-> "", by |-> "", from |-> "", to |-> "",
    count |-> Undef, settled |-> FALSE, batch |-> 0, base |-> 0,
    added |-> <<>>, final |-> "" ]

Observe(call, via, status) ==
  [ NoObs EXCEPT !.call = call, !.via = via, !.status = status ]

ObservePut(by, from, to, status) ==
  [ NoObs EXCEPT !.call = "PUT /requests/:id", !.via = "apiClient",
      !.status = status, !.by = by, !.from = from, !.to = to ]

MainInit ==
  /\ now = 1
  /\ token \in {NoToken, Token}
  /\ srv \in { [ i \in TicketIds |-> IF i = 1 THEN s ELSE NoTicket ] : s \in SeedTickets }
  /\ auth = AuthBoot
  /\ app = AppBoot
  /\ det = DetIdle
  /\ sub = HandlerIdle
  /\ sc = HandlerIdle
  /\ an = HandlerIdle
  /\ cr = HandlerIdle
  /\ dl = HandlerIdle
  /\ obs = NoObs
  /\ ops = 0

MainIdle ==
  /\ now = 1
  /\ token = NoToken
  /\ srv = NoRequests
  /\ auth = AuthBoot
  /\ app = AppBoot
  /\ det = DetIdle
  /\ sub = HandlerIdle
  /\ sc = HandlerIdle
  /\ an = HandlerIdle
  /\ cr = HandlerIdle
  /\ dl = HandlerIdle
  /\ obs = NoObs
  /\ ops = 0

\* window.location.reload(): every component is rebuilt; session storage and
\* the server are all that survive.
Reload ==
  /\ auth' = AuthBoot
  /\ app' = AppBoot
  /\ det' = DetIdle
  /\ sub' = HandlerIdle
  /\ sc' = HandlerIdle
  /\ an' = HandlerIdle
  /\ cr' = HandlerIdle
  /\ dl' = HandlerIdle

\* buildError on 401/403: both storage keys are removed and the page reloads.
buildErrorAuthSent(sent) ==
  /\ token' = NoToken
  /\ Reload
  /\ obs' = sent
  /\ UNCHANGED <<ops, now, srv>>

buildErrorAuth(call) == buildErrorAuthSent(Observe(call, "apiClient", "auth"))

Tick ==
  /\ now < MaxClock
  /\ now' = now + 1
  /\ obs' = NoObs
  /\ UNCHANGED <<ops, token, srv, auth, app, det, sub, sc, an, cr, dl>>
  /\ UNCHANGED notMainVars


(***************************************************************************)
(* Session holder (AuthProvider) and authService                           *)
(***************************************************************************)
\* The fetch effect of AppContent runs whenever user changes to a non-null
\* value: one more list fetch is in flight.
FetchStarted(a) == [ a EXCEPT !.fetching = a.fetching + 1 ]

\* Faulty variant: the interval is started for every signed-in user.
pollEffectAnyUser(a, user) ==
  LET cleared == IF a.pollTimers > 0 THEN a.pollTimers - 1 ELSE 0
  IN [ a EXCEPT !.pollTimers =
         cleared + (IF user = NoUser THEN 0 ELSE 1) ]

\* The poll effect re-run for a new current user: the cleanup of the previous
\* run clears the interval it started, then one is started for a developer.
pollEffect(a, user) ==
  LET cleared == IF a.pollTimers > 0 THEN a.pollTimers - 1 ELSE 0
  IN [ a EXCEPT !.pollTimers =
         cleared + (IF user = NoUser \/ user # DEVELOPER_ROLE THEN 0 ELSE 1) ]

CanFetch == app.fetching < MaxInFlight

\* checkSession -> getCurrentUser without a stored token.
CheckSessionNoToken ==
  /\ auth.pc = "check"
  /\ token = NoToken
  /\ auth' = [ user |-> NoUser, isLoading |-> FALSE, pc |-> "idle" ]
  /\ obs' = NoObs
  /\ UNCHANGED <<ops, now, token, srv, app, det, sub, sc, an, cr, dl>>
  /\ UNCHANGED notMainVars

\* Faulty variant: the failed lookup leaves the stored token in place.
getCurrentUserFailedKeepToken ==
  /\ Reload
  /\ UNCHANGED <<ops, now, srv, token>>

\* catch of getCurrentUser: logout() removes the token and reloads the page.
getCurrentUserFailed ==
  /\ token' = NoToken
  /\ Reload
  /\ UNCHANGED <<ops, now, srv>>

\* checkSession -> getCurrentUser with a stored token: GET /users/me.
CheckSessionResolve ==
  /\ auth.pc = "check"
  /\ token # NoToken
  /\ \E o \in Outcomes, role \in Roles :
       CASE o = "ok" ->
              /\ auth' = [ user |-> role, isLoading |-> FALSE, pc |-> "idle" ]
              /\ app' = pollEffect(FetchStarted(app), role)
              /\ obs' = Observe("GET /users/me", "apiClient", "ok")
              /\ UNCHANGED <<ops, now, token, srv, det, sub, sc, an, cr, dl>>
         [] o = "auth" -> buildErrorAuth("GET /users/me")
         [] o = "err" ->
              /\ getCurrentUserFailed
              /\ obs' = Observe("GET /users/me", "apiClient", "err")
  /\ UNCHANGED notMainVars

\* Login form submit -> AuthProvider.login up to the POST.
LoginStart ==
  /\ auth.pc = "idle"
  /\ auth.user = NoUser
  /\ ~auth.isLoading
  /\ auth' = [ auth EXCEPT !.isLoading = TRUE, !.pc = "login" ]
  /\ obs' = NoObs
  /\ UNCHANGED <<ops, now, token, srv, app, det, sub, sc, an, cr, dl>>
  /\ UNCHANGED notMainVars

\* POST /auth/login resolves.
LoginResolve ==
  /\ auth.pc = "login"
  /\ \E o \in Outcomes, role \in Roles :
       CASE o = "ok" ->
              /\ token' = Token
              /\ auth' = [ user |-> role, isLoading |-> FALSE, pc |-> "idle" ]
              /\ app' = pollEffect(FetchStarted(app), role)
              /\ obs' = Observe("POST /auth/login", "apiClient", "ok")
              /\ UNCHANGED <<ops, now, srv, det, sub, sc, an, cr, dl>>
         [] o = "auth" -> buildErrorAuth("POST /auth/login")
         [] o = "err" ->
              /\ auth' = [ auth EXCEPT !.isLoading = FALSE, !.pc = "idle" ]
              /\ obs' = Observe("POST /auth/login", "apiClient", "err")
              /\ UNCHANGED <<ops, now, token, srv, app, det, sub, sc, an, cr, dl>>
  /\ UNCHANGED notMainVars

\* handleLogout -> logout(): the token is removed and a reload of the page is
\* requested; the handler goes on (setUser(null), setSelectedRequest(null),
\* setCurrentView) and the document lives on, its calls still in flight, until
\* the reload replaces it.
handleLogout ==
  /\ auth.user # NoUser
  /\ token' = NoToken
  /\ auth' = [ auth EXCEPT !.user = NoUser, !.pc = "unload" ]
  /\ app' = pollEffect([ app EXCEPT !.selectedRequest = NoTicket,
                                    !.currentView = "DASHBOARD" ], NoUser)
  /\ det' = DetIdle
  /\ sub' = [ sub EXCEPT !.live = FALSE ]
  /\ sc' = [ sc EXCEPT !.live = FALSE ]
  /\ an' = [ an EXCEPT !.live = FALSE ]
  /\ obs' = NoObs
  /\ UNCHANGED <<ops, now, srv, cr, dl>>
  /\ UNCHANGED notMainVars

\* The reload requested by logout() replaces the document.
PageUnload ==
  /\ auth.pc = "unload"
  /\ Reload
  /\ obs' = NoObs
  /\ UNCHANGED <<ops, now, srv, token>>
  /\ UNCHANGED notMainVars

(***************************************************************************)
(* AppContent: ticket list, selection, navigation                          *)
(***************************************************************************)
LoggedIn == auth.user # NoUser /\ ~auth.isLoading

\* ops counts the handler invocations the user has made so far.
CanStart == ops < MaxOps

DetailShown == LoggedIn /\ app.currentView = "DASHBOARD" /\ app.selectedRequest.exists

\* Handlers of an unmounted detail view keep running; their state updates
\* are dropped.
Detach(h) == [ h EXCEPT !.live = FALSE ]

Unmount ==
  /\ det' = DetIdle
  /\ sub' = Detach(sub)
  /\ sc' = Detach(sc)
  /\ an' = Detach(an)

\* fetchData resolves: GET /requests.
FetchResolve ==
  /\ app.fetching > 0
  /\ \E o \in Outcomes :
       CASE o = "ok" ->
              /\ app' = [ app EXCEPT !.requests = srv, !.fetching = app.fetching - 1 ]
              /\ obs' = Observe("GET /requests", "apiClient", "ok")
              /\ UNCHANGED <<ops, now, token, srv, auth, det, sub, sc, an, cr, dl>>
         [] o = "auth" -> buildErrorAuth("GET /requests")
         [] o = "err" ->
              /\ app' = [ app EXCEPT !.fetching = app.fetching - 1 ]
              /\ obs' = Observe("GET /requests", "apiClient", "err")
              /\ UNCHANGED <<ops, now, token, srv, auth, det, sub, sc, an, cr, dl>>
  /\ UNCHANGED notMainVars

\* A running poll interval fires and bumps pollTick: one more list fetch.
PollTick ==
  /\ app.pollTimers > 0
  /\ CanFetch
  /\ app' = FetchStarted(app)
  /\ obs' = NoObs
  /\ UNCHANGED <<ops, now, token, srv, auth, det, sub, sc, an, cr, dl>>
  /\ UNCHANGED notMainVars

\* The requester's own tickets (all seeded and created tickets are theirs).
myRequests == { i \in TicketIds : app.requests[i].exists }

\* onViewRequest from a portal list.
onViewRequest ==
  /\ LoggedIn
  /\ app.currentView = "DASHBOARD"
  /\ ~app.selectedRequest.exists
  /\ \E i \in myRequests :
       /\ app' = [ app EXCEPT !.selectedRequest = app.requests[i] ]
       /\ det' = DetMount(app.requests[i], auth.user)
  /\ obs' = NoObs
  /\ UNCHANGED <<ops, now, token, srv, auth, sub, sc, an, cr, dl>>
  /\ UNCHANGED notMainVars

\* Back button of the detail view.
onBack ==
  /\ DetailShown
  /\ app' = [ app EXCEPT !.selectedRequest = NoTicket ]
  /\ Unmount
  /\ obs' = NoObs
  /\ UNCHANGED <<ops, now, token, srv, auth, cr, dl>>
  /\ UNCHANGED notMainVars

\* Sidebar: Script Library / Dashboard.
Navigate ==
  /\ LoggedIn
  /\ \E v \in {"DASHBOARD", "LIBRARY"} :
       /\ v # app.currentView \/ app.selectedRequest.exists
       /\ app' = [ app EXCEPT !.selectedRequest = NoTicket, !.currentView = v ]
  /\ Unmount
  /\ obs' = NoObs
  /\ UNCHANGED <<ops, now, token, srv, auth, cr, dl>>
  /\ UNCHANGED notMainVars

\* onUpdate(): refreshRequests() plus a second list fetch whose handler
\* re-selects the ticket with the id captured when the view was rendered.
CanUpdate == app.upd = NoId /\ CanFetch

\* The fetch effect run for a bumped refreshTrigger: fetchData returns at once
\* when there is no user.
RefreshStarted(a) == IF auth.user = NoUser THEN a ELSE FetchStarted(a)

onUpdate(a, id) == [ RefreshStarted(a) EXCEPT !.upd = id ]

\* getRequests().then(...) of onUpdate resolves.
UpdateResolve ==
  /\ app.upd # NoId
  /\ \E o \in Outcomes :
       CASE o = "ok" ->
              LET fresh == srv[app.upd]
              IN /\ IF fresh.exists
                    THEN /\ app' = [ app EXCEPT !.selectedRequest = fresh, !.upd = NoId ]
                         /\ det' = IF app.currentView # "DASHBOARD" \/ auth.user = NoUser
                                   THEN det
                                   ELSE IF det.mounted THEN DetSync(det, fresh)
                                   ELSE DetMount(fresh, auth.user)
                    ELSE /\ app' = [ app EXCEPT !.upd = NoId ]
                         /\ det' = det
                 /\ obs' = Observe("GET /requests", "apiClient", "ok")
                 /\ UNCHANGED <<ops, now, token, srv, auth, sub, sc, an, cr, dl>>
         [] o = "auth" -> buildErrorAuth("GET /requests")
         [] o = "err" ->
              /\ app' = [ app EXCEPT !.upd = NoId ]
              /\ obs' = Observe("GET /requests", "apiClient", "err")
              /\ UNCHANGED <<ops, now, token, srv, auth, det, sub, sc, an, cr, dl>>
  /\ UNCHANGED notMainVars

\* Script library: Download Library, a direct fetch outside apiClient.
handleDownloadAll ==
  /\ LoggedIn
  /\ app.currentView = "LIBRARY"
  /\ dl.pc = "idle"
  /\ CanStart
  /\ ops' = ops + 1
  /\ dl' = [ HandlerIdle EXCEPT !.pc = "fetch", !.live = TRUE ]
  /\ obs' = NoObs
  /\ UNCHANGED <<now, token, srv, auth, app, det, sub, sc, an, cr>>
  /\ UNCHANGED notMainVars

\* GET /script-tree/export resolves: a non-2xx response only sets the
\* feedback banner.
DownloadResolve ==
  /\ dl.pc = "fetch"
  /\ \E o \in Outcomes :
       /\ dl' = HandlerIdle
       /\ obs' = Observe("GET /script-tree/export", "fetch", o)
  /\ UNCHANGED <<ops, now, token, srv, auth, app, det, sub, sc, an, cr>>
  /\ UNCHANGED notMainVars


(***************************************************************************)
(* RequestDetail: status, return, analysis, file stacking and submission   *)
(***************************************************************************)
isDeveloper == auth.user = DEVELOPER_ROLE

DetailLive == DetailShown /\ det.mounted

TicketId == det.localReq.id

\* Faulty variant: the clock reading lands in createdAt.
StampStatusCreated(req, status, t) ==
  [ req EXCEPT !.status = status, !.createdAt = t ]

\* { ...localReq, status, updatedAt: Date.now() }
StampStatus(req, status, t) ==
  [ req EXCEPT !.status = status, !.updatedAt = t ]

\* State updates of a handler reach the view only while it is mounted.
IfLive(h, d) == IF h.live THEN d ELSE det

\* refreshRequest of the mount effect resolves.
RefreshResolve ==
  /\ det.refreshing
  /\ \E o \in Outcomes :
       CASE o = "ok" ->
              /\ det' = [ det EXCEPT !.localReq = srv[TicketId],
                                     !.resultFiles = srv[TicketId].nFiles,
                                     !.refreshing = FALSE ]
              /\ obs' = Observe("GET /requests/:id", "apiClient", "ok")
              /\ UNCHANGED <<ops, now, token, srv, auth, app, sub, sc, an, cr, dl>>
         [] o = "auth" -> buildErrorAuth("GET /requests/:id")
         [] o = "err" ->
              /\ det' = [ det EXCEPT !.refreshing = FALSE ]
              /\ obs' = Observe("GET /requests/:id", "apiClient", "err")
              /\ UNCHANGED <<ops, now, token, srv, auth, app, sub, sc, an, cr, dl>>
  /\ UNCHANGED notMainVars

\* The developer's status select: every RequestStatus value is an option.
handleStatusChange ==
  /\ DetailLive
  /\ isDeveloper
  /\ sc.pc = "idle"
  /\ CanStart
  /\ ops' = ops + 1
  /\ \E status \in RequestStatus \ {det.localReq.status} :
       sc' = [ HandlerIdle EXCEPT !.pc = "put", !.by = "handleStatusChange",
                 !.req = StampStatus(det.localReq, status, now),
                 !.from = det.localReq.status, !.live = TRUE ]
  /\ obs' = NoObs
  /\ UNCHANGED <<now, token, srv, auth, app, det, sub, an, cr, dl>>
  /\ UNCHANGED notMainVars

\* The requester's Return to Developer button, rendered while COMPLETED.
handleReturnToDeveloper ==
  /\ DetailLive
  /\ ~isDeveloper
  /\ det.localReq.status = "COMPLETED"
  /\ sc.pc = "idle"
  /\ CanStart
  /\ ops' = ops + 1
  /\ sc' = [ HandlerIdle EXCEPT !.pc = "put", !.by = "handleReturnToDeveloper",
               !.req = StampStatus(det.localReq, "RETURNED", now),
               !.from = det.localReq.status, !.live = TRUE ]
  /\ obs' = NoObs
  /\ UNCHANGED <<now, token, srv, auth, app, det, sub, an, cr, dl>>
  /\ UNCHANGED notMainVars

\* saveRequest(updated) of either handler resolves.
StatusResolve ==
  /\ sc.pc = "put"
  /\ \E o \in Outcomes :
       CASE o = "ok" ->
              /\ CanUpdate
              /\ srv' = [ srv EXCEPT ![sc.req.id] = SrvPut(@, sc.req, now) ]
              /\ det' = IfLive(sc, [ det EXCEPT !.localReq = sc.req ])
              /\ app' = onUpdate(app, sc.req.id)
              /\ sc' = IF sc.by = "handleReturnToDeveloper"
                       THEN [ sc EXCEPT !.pc = "comments" ]
                       ELSE HandlerIdle
              /\ obs' = ObservePut(sc.by, sc.from, sc.req.status, "ok")
              /\ UNCHANGED <<ops, now, token, auth, sub, an, cr, dl>>
         [] o = "auth" -> buildErrorAuth("PUT /requests/:id")
         [] o = "err" ->
              /\ sc' = HandlerIdle
              /\ obs' = ObservePut(sc.by, sc.from, sc.req.status, "err")
              /\ UNCHANGED <<ops, now, token, srv, auth, app, det, sub, an, cr, dl>>
  /\ UNCHANGED notMainVars

\* loadComments at the end of handleReturnToDeveloper resolves; its own
\* failures are only logged.
ReturnComments ==
  /\ sc.pc = "comments"
  /\ \E o \in Outcomes :
       IF o = "auth" THEN buildErrorAuth("GET /requests/:id/comments")
       ELSE /\ sc' = HandlerIdle
            /\ obs' = Observe("GET /requests/:id/comments", "apiClient", o)
            /\ UNCHANGED <<ops, now, token, srv, auth, app, det, sub, an, cr, dl>>
  /\ UNCHANGED notMainVars

\* handleAnalyze up to the analysis call.
handleAnalyze ==
  /\ DetailLive
  /\ isDeveloper
  /\ ~det.analyzing
  /\ an.pc = "idle"
  /\ CanStart
  /\ ops' = ops + 1
  /\ det' = [ det EXCEPT !.analyzing = TRUE ]
  /\ an' = [ HandlerIdle EXCEPT !.pc = "analyze", !.by = "handleAnalyze",
               !.req = det.localReq, !.from = det.localReq.status, !.live = TRUE ]
  /\ obs' = NoObs
  /\ UNCHANGED <<now, token, srv, auth, app, sub, sc, cr, dl>>
  /\ UNCHANGED notMainVars

\* Faulty variant: the finally block is missing.
AnalyzeFailedStillAnalyzing(d) ==
  [ d EXCEPT !.banner = "Analysis failed. Ensure API key is set." ]

\* catch and finally of handleAnalyze.
AnalyzeFailed(d) ==
  [ d EXCEPT !.banner = "Analysis failed. Ensure API key is set.",
             !.analyzing = FALSE ]

\* POST /requests/:id/analyze resolves.
AnalyzeResolve ==
  /\ an.pc = "analyze"
  /\ \E o \in Outcomes :
       CASE o = "ok" ->
              /\ an' = [ an EXCEPT !.pc = "save" ]
              /\ obs' = Observe("POST /requests/:id/analyze", "apiClient", "ok")
              /\ UNCHANGED <<ops, now, token, srv, auth, app, det, sub, sc, cr, dl>>
         [] o = "auth" -> buildErrorAuth("POST /requests/:id/analyze")
         [] o = "err" ->
              /\ det' = IfLive(an, AnalyzeFailed(det))
              /\ an' = HandlerIdle
              /\ obs' = Observe("POST /requests/:id/analyze", "apiClient", "err")
              /\ UNCHANGED <<ops, now, token, srv, auth, app, sub, sc, cr, dl>>
  /\ UNCHANGED notMainVars

\* saveRequest({ ...localReq, aiAnalysis }) resolves.
AnalyzeSave ==
  /\ an.pc = "save"
  /\ \E o \in Outcomes :
       LET updated == [ an.req EXCEPT !.aiAnalysis = TRUE ]
       IN CASE o = "ok" ->
                 /\ CanUpdate
                 /\ srv' = [ srv EXCEPT ![an.req.id] = SrvPut(@, updated, now) ]
                 /\ det' = IfLive(an, [ det EXCEPT !.localReq = updated,
                                                   !.analyzing = FALSE ])
                 /\ app' = onUpdate(app, an.req.id)
                 /\ an' = HandlerIdle
                 /\ obs' = ObservePut("handleAnalyze", an.from, updated.status, "ok")
                 /\ UNCHANGED <<ops, now, token, auth, sub, sc, cr, dl>>
            [] o = "auth" -> buildErrorAuth("PUT /requests/:id")
            [] o = "err" ->
                 /\ det' = IfLive(an, AnalyzeFailed(det))
                 /\ an' = HandlerIdle
                 /\ obs' = ObservePut("handleAnalyze", an.from, updated.status, "err")
                 /\ UNCHANGED <<ops, now, token, srv, auth, app, sub, sc, cr, dl>>
  /\ UNCHANGED notMainVars

\* File input / drop: the files join the pending buffer.
handleAddFiles ==
  /\ DetailLive
  /\ isDeveloper
  /\ \E n \in 1..MaxPending :
       /\ det.pendingFiles + n <= MaxPending
       /\ det' = [ det EXCEPT !.pendingFiles = det.pendingFiles + n ]
  /\ obs' = NoObs
  /\ UNCHANGED <<ops, now, token, srv, auth, app, sub, sc, an, cr, dl>>
  /\ UNCHANGED notMainVars

handleRemovePendingFile ==
  /\ DetailLive
  /\ isDeveloper
  /\ det.pendingFiles > 0
  /\ det' = [ det EXCEPT !.pendingFiles = det.pendingFiles - 1 ]
  /\ obs' = NoObs
  /\ UNCHANGED <<ops, now, token, srv, auth, app, sub, sc, an, cr, dl>>
  /\ UNCHANGED notMainVars

\* saveRequest({ ...localReq, status: COMPLETED })
SubmitUpdate(req) == [ req EXCEPT !.status = "COMPLETED" ]

SubmitFailed(d) ==
  [ d EXCEPT !.banner = "Failed to submit files", !.isSavingResults = FALSE ]

\* The submit handler returned: what it left on the server.
ObserveSettled(o, call, status, tk) ==
  [ o EXCEPT !.call = call, !.via = "apiClient", !.status = status,
             !.by = "handleSubmitFiles", !.settled = TRUE, !.batch = sub.batch,
             !.base = sub.base,
             !.added = SubSeq(EventsOrEmpty(tk), sub.base + 1, Len(EventsOrEmpty(tk))),
             !.final = tk.status ]

\* Faulty variant: an empty buffer is submitted like any other.
handleSubmitFilesUnguarded ==
  /\ DetailLive
  /\ isDeveloper
  /\ ~det.isSavingResults
  /\ sub.pc = "idle"
  /\ CanStart
  /\ ops' = ops + 1
  /\ EventCount(srv[TicketId]) < MaxEvents
  /\ IF FALSE
     THEN /\ det' = [ det EXCEPT !.banner = "Add at least one file to submit or resubmit." ]
          /\ sub' = sub
     ELSE /\ det' = [ det EXCEPT !.isSavingResults = TRUE ]
          /\ sub' = [ HandlerIdle EXCEPT !.pc = "post", !.by = "handleSubmitFiles",
                        !.req = det.localReq, !.from = det.localReq.status,
                        !.batch = det.pendingFiles,
                        !.base = EventCount(srv[TicketId]), !.live = TRUE ]
  /\ obs' = NoObs
  /\ UNCHANGED <<now, token, srv, auth, app, sc, an, cr, dl>>
  /\ UNCHANGED notMainVars

\* Submit / Resubmit button: up to the POST of the encoded batch.
handleSubmitFiles ==
  /\ DetailLive
  /\ isDeveloper
  /\ ~det.isSavingResults
  /\ sub.pc = "idle"
  /\ CanStart
  /\ ops' = ops + 1
  /\ EventCount(srv[TicketId]) < MaxEvents
  /\ IF det.pendingFiles = 0
     THEN /\ det' = [ det EXCEPT !.banner = "Add at least one file to submit or resubmit." ]
          /\ sub' = sub
     ELSE /\ det' = [ det EXCEPT !.isSavingResults = TRUE ]
          /\ sub' = [ HandlerIdle EXCEPT !.pc = "post", !.by = "handleSubmitFiles",
                        !.req = det.localReq, !.from = det.localReq.status,
                        !.batch = det.pendingFiles,
                        !.base = EventCount(srv[TicketId]), !.live = TRUE ]
  /\ obs' = NoObs
  /\ UNCHANGED <<now, token, srv, auth, app, sc, an, cr, dl>>
  /\ UNCHANGED notMainVars

\* POST /requests/:id/result-files resolves.
SubmitPost ==
  /\ sub.pc = "post"
  /\ \E o \in Outcomes :
       CASE o = "ok" ->
              /\ srv' = [ srv EXCEPT ![sub.req.id] = SrvPostFiles(@, sub.batch, now) ]
              /\ sub' = [ sub EXCEPT !.pc = "put" ]
              /\ obs' = Observe("POST /requests/:id/result-files", "apiClient", "ok")
              /\ UNCHANGED <<ops, now, token, auth, app, det, sc, an, cr, dl>>
         [] o = "auth" -> buildErrorAuth("POST /requests/:id/result-files")
         [] o = "err" ->
              /\ det' = IfLive(sub, SubmitFailed(det))
              /\ sub' = HandlerIdle
              /\ obs' = ObserveSettled(NoObs, "POST /requests/:id/result-files",
                                       "err", srv[sub.req.id])
              /\ UNCHANGED <<ops, now, token, srv, auth, app, sc, an, cr, dl>>
  /\ UNCHANGED notMainVars

\* The status update of the submit resolves.
SubmitPut ==
  /\ sub.pc = "put"
  /\ \E o \in Outcomes :
       LET body == SubmitUpdate(sub.req)
       IN CASE o = "ok" ->
                 /\ srv' = [ srv EXCEPT ![sub.req.id] = SrvPut(@, body, now) ]
                 /\ sub' = [ sub EXCEPT !.pc = "get" ]
                 /\ obs' = ObservePut("handleSubmitFiles", sub.from, body.status, "ok")
                 /\ UNCHANGED <<ops, now, token, auth, app, det, sc, an, cr, dl>>
            [] o = "auth" -> buildErrorAuth("PUT /requests/:id")
            [] o = "err" ->
                 /\ det' = IfLive(sub, SubmitFailed(det))
                 /\ sub' = HandlerIdle
                 /\ obs' = ObserveSettled(
                             ObservePut("handleSubmitFiles", sub.from, body.status, "err"),
                             "PUT /requests/:id", "err", srv[sub.req.id])
                 /\ UNCHANGED <<ops, now, token, srv, auth, app, sc, an, cr, dl>>
  /\ UNCHANGED notMainVars

\* refreshRequest of the submit resolves; then the buffer is emptied and the
\* parent notified.
SubmitGet ==
  /\ sub.pc = "get"
  /\ \E o \in Outcomes :
       CASE o = "ok" ->
              LET fresh == srv[sub.req.id]
              IN /\ CanUpdate
                 /\ det' = IfLive(sub, [ det EXCEPT !.localReq = fresh,
                                                    !.resultFiles = fresh.nFiles,
                                                    !.pendingFiles = 0 ])
                 /\ app' = onUpdate(app, sub.req.id)
                 /\ sub' = [ sub EXCEPT !.pc = "email" ]
                 /\ obs' = Observe("GET /requests/:id", "apiClient", "ok")
                 /\ UNCHANGED <<ops, now, token, srv, auth, sc, an, cr, dl>>
         [] o = "auth" -> buildErrorAuth("GET /requests/:id")
         [] o = "err" ->
              /\ det' = IfLive(sub, SubmitFailed(det))
              /\ sub' = HandlerIdle
              /\ obs' = ObserveSettled(NoObs, "GET /requests/:id", "err",
                                       srv[sub.req.id])
              /\ UNCHANGED <<ops, now, token, srv, auth, app, sc, an, cr, dl>>
  /\ UNCHANGED notMainVars

\* Faulty variant: a failed notification is reported as a failed submission.
SubmitEmailBlocking ==
  /\ sub.pc = "email"
  /\ \E o \in Outcomes :
       IF o = "auth" THEN buildErrorAuth("POST /notifications/email")
       ELSE /\ det' = IfLive(sub, IF o = "err" THEN SubmitFailed(det)
                                  ELSE [ det EXCEPT !.banner = "Files submitted successfully.",
                                                    !.isSavingResults = FALSE ])
            /\ sub' = HandlerIdle
            /\ obs' = ObserveSettled(NoObs, "POST /notifications/email", o,
                                     srv[sub.req.id])
            /\ UNCHANGED <<ops, now, token, srv, auth, app, sc, an, cr, dl>>
  /\ UNCHANGED notMainVars

\* sendEmailNotification resolves (its own failures are only logged); the
\* success banner follows and the saving flag is cleared.
SubmitEmail ==
  /\ sub.pc = "email"
  /\ \E o \in Outcomes :
       IF o = "auth" THEN buildErrorAuth("POST /notifications/email")
       ELSE /\ det' = IfLive(sub, [ det EXCEPT !.banner = "Files submitted successfully.",
                                               !.isSavingResults = FALSE ])
            /\ sub' = HandlerIdle
            /\ obs' = ObserveSettled(NoObs, "POST /notifications/email", o,
                                     srv[sub.req.id])
            /\ UNCHANGED <<ops, now, token, srv, auth, app, sc, an, cr, dl>>
  /\ UNCHANGED notMainVars

(***************************************************************************)
(* RequesterPortal: new-request form                                       *)
(***************************************************************************)
\* INITIAL_REQ_STATE.submissionCount
InitialSubmissionCount == 0

\* (newReq.submissionCount || 0) + 1
nextSubmissionCount == InitialSubmissionCount + 1

\* The AutomationRequest built by the form handler; t1 and t2 are the two
\* Date.now() readings.
BuildRequest(t1, t2) ==
  [ NoTicket EXCEPT !.exists = TRUE, !.status = "PENDING", !.createdAt = t1,
      !.updatedAt = t2, !.submissionCount = nextSubmissionCount ]

FreeIds == { i \in TicketIds : ~srv[i].exists }

\* Form submit: up to the POST of the new ticket.
handleSubmit ==
  /\ LoggedIn
  /\ ~isDeveloper
  /\ app.currentView = "DASHBOARD"
  /\ ~app.selectedRequest.exists
  /\ cr.pc = "idle"
  /\ CanStart
  /\ ops' = ops + 1
  /\ FreeIds # {}
  /\ \E d \in {0, 1} :
       /\ now + d <= MaxClock
       /\ now' = now + d
       /\ cr' = [ HandlerIdle EXCEPT !.pc = "post", !.by = "handleSubmit",
                    !.req = BuildRequest(now, now + d), !.live = TRUE ]
  /\ obs' = NoObs
  /\ UNCHANGED <<token, srv, auth, app, det, sub, sc, an, dl>>
  /\ UNCHANGED notMainVars

\* createRequest(request): the whole object is the POST body.
CreatePost ==
  /\ cr.pc = "post"
  /\ \E o \in Outcomes :
       LET sent == [ Observe("POST /requests", "apiClient", o) EXCEPT
                       !.by = "handleSubmit", !.to = cr.req.status,
                       !.count = cr.req.submissionCount ]
       IN CASE o = "ok" ->
                 LET id == CHOOSE i \in FreeIds : \A j \in FreeIds : i <= j
                 IN /\ srv' = [ srv EXCEPT ![id] = SrvCreate(id, cr.req, now) ]
                    /\ cr' = [ cr EXCEPT !.pc = "email" ]
                    /\ obs' = sent
                    /\ UNCHANGED <<ops, now, token, auth, app, det, sub, sc, an, dl>>
            [] o = "auth" -> buildErrorAuthSent(sent)
            [] o = "err" ->
                 /\ cr' = HandlerIdle
                 /\ obs' = sent
                 /\ UNCHANGED <<ops, now, token, srv, auth, app, det, sub, sc, an, dl>>
  /\ UNCHANGED notMainVars

\* sendEmailNotification resolves; onRequestCreate() then refreshes the list.
CreateEmail ==
  /\ cr.pc = "email"
  /\ \E o \in Outcomes :
       IF o = "auth" THEN buildErrorAuth("POST /notifications/email")
       ELSE /\ CanFetch
            /\ app' = RefreshStarted(app)
            /\ cr' = HandlerIdle
            /\ obs' = Observe("POST /notifications/email", "apiClient", o)
            /\ UNCHANGED <<ops, now, token, srv, auth, det, sub, sc, an, dl>>
  /\ UNCHANGED notMainVars

MainNext ==
  \/ Tick
  \/ CheckSessionNoToken \/ CheckSessionResolve
  \/ LoginStart \/ LoginResolve \/ handleLogout \/ PageUnload
  \/ FetchResolve \/ PollTick \/ onViewRequest \/ onBack \/ Navigate
  \/ UpdateResolve
  \/ handleDownloadAll \/ DownloadResolve
  \/ RefreshResolve
  \/ handleStatusChange \/ handleReturnToDeveloper \/ StatusResolve
  \/ ReturnComments
  \/ handleAnalyze \/ AnalyzeResolve \/ AnalyzeSave
  \/ handleAddFiles \/ handleRemovePendingFile
  \/ handleSubmitFiles \/ SubmitPost \/ SubmitPut \/ SubmitGet \/ SubmitEmail
  \/ handleSubmit \/ CreatePost \/ CreateEmail

(***************************************************************************)
(* Properties of the session and ticket workflow                           *)
(***************************************************************************)
\* C2: whenever a backend call, made through apiClient or by the direct
\* zip-export fetch, is answered 401 or 403, the stored bearer token is gone
\* and the session holder has no user (the login view is what renders next).
C2_AuthFailureClearsToken ==
  obs.status = "auth" => token = NoToken /\ auth.user = NoUser

\* C3: a submit whose batch the server accepted has, when the handler
\* returns, left the ticket COMPLETED with exactly one SubmissionEvent added,
\* SUBMISSION if the ticket had none before and RESUBMISSION otherwise,
\* carrying the size of the batch.
C3_SubmitCompletesWithOneEvent ==
  (obs.settled /\ obs.call # "POST /requests/:id/result-files") =>
    /\ obs.final = "COMPLETED"
    /\ Len(obs.added) = 1
    /\ obs.added[1].eventType = (IF obs.base = 0 THEN "SUBMISSION" ELSE "RESUBMISSION")
    /\ obs.added[1].addedFiles = obs.batch

\* The tickets the client holds: the list, the selection, the detail view's
\* copy and the copies captured by running handlers.
ClientTickets ==
  { tk \in { app.requests[i] : i \in TicketIds }
           \cup { app.selectedRequest, det.localReq, sub.req, sc.req, an.req, cr.req } :
      tk.exists }

\* C5: every ticket held in client state has updatedAt >= createdAt, after
\* creation and after every client update operation.
C5_UpdatedNotBeforeCreated ==
  \A tk \in ClientTickets : tk.updatedAt >= tk.createdAt

\* A status change, return or analysis save has been applied to the detail
\* view's ticket at a later clock reading than its creation.
C5_Witness ==
  /\ obs.call = "PUT /requests/:id"
  /\ obs.status = "ok"
  /\ det.localReq.exists
  /\ det.localReq.updatedAt > det.localReq.createdAt

\* C6: a status update that moves a ticket to RETURNED is issued only by the
\* requester's Return to Developer action, and only from COMPLETED.
C6_ReturnedOnlyByRequester ==
  (obs.call = "PUT /requests/:id" /\ obs.to = "RETURNED" /\ obs.from # "RETURNED") =>
    obs.by = "handleReturnToDeveloper" /\ obs.from = "COMPLETED"

StatusGraph ==
  { <<"PENDING", "IN_PROGRESS">>, <<"IN_PROGRESS", "COMPLETED">>,
    <<"IN_PROGRESS", "REJECTED">>, <<"COMPLETED", "RETURNED">>,
    <<"RETURNED", "IN_PROGRESS">>, <<"RETURNED", "COMPLETED">> }

\* C7: every status change the client issues from the developer's controls
\* (the status select, the submit button) follows an edge of the status graph.
C7_ChangesFollowGraph ==
  (/\ obs.call = "PUT /requests/:id"
   /\ obs.by \in {"handleStatusChange", "handleSubmitFiles"}
   /\ obs.from # obs.to) =>
    <<obs.from, obs.to>> \in StatusGraph

\* Positions of the status entry with the given title in a timeline.
StatusEntries(items, title) ==
  { i \in 1..Len(items) : items[i].order = StatusOrder /\ items[i].title = title }

\* The step in which the Return to Developer update succeeds while the detail
\* view that issued it is still shown.
ReturnApplied ==
  /\ sc.pc = "put"
  /\ sc.by = "handleReturnToDeveloper"
  /\ sc.live
  /\ sc'.pc = "comments"

C10_CreatedPendingCountZero ==
  /\ obs.call = "POST /requests" => obs.to = "PENDING" /\ obs.count = 0
  /\ \A i \in TicketIds :
       (app.requests[i].exists /\ i # 1 /\ EventCount(app.requests[i]) = 0) =>
         rowSubmissionCount(app.requests[i]) = 0


\* The analysis call of a detail view that is still shown comes back with
\* one of the given outcomes.
AnalysisCallEnds(outcomes) ==
  /\ an.pc = "analyze"
  /\ an.live
  /\ obs'.call = "POST /requests/:id/analyze"
  /\ obs'.status \in outcomes

\* What C12 says of a failed analysis call: banner shown, analyzing flag
\* false, nothing sent to the server, the ticket held by the view as before.
AnalysisFailureContained ==
  /\ det'.banner = "Analysis failed. Ensure API key is set."
  /\ ~det'.analyzing
  /\ det'.localReq = det.localReq
  /\ srv' = srv
  /\ an'.pc = "idle"

C14_PollOnlyForDeveloper ==
  /\ [](app.pollTimers = IF auth.user = DEVELOPER_ROLE THEN 1 ELSE 0)
  /\ [][PollTick => (LoggedIn /\ auth.user = DEVELOPER_ROLE)]_vars

\* A developer session whose list was loaded and whose poll has just started
\* one more fetch.
C14_Witness ==
  /\ auth.user = DEVELOPER_ROLE
  /\ app.pollTimers = 1
  /\ app.requests # NoRequests
  /\ app.fetching = 1
  /\ obs = NoObs
  /\ ops = 0


\* The session check at start ends without a user: there is no stored token,
\* or the who-am-I call fails.
SessionCheckFails ==
  /\ auth.pc = "check"
  /\ \/ CheckSessionNoToken
     \/ (obs'.call = "GET /users/me" /\ obs'.status \in {"err", "auth"})

\* C15: a session check that finds no token or whose who-am-I call fails
\* leaves no current user and no stored token, and every session check is
\* followed by isLoading being false.
C15_SessionCheckSettles ==
  /\ [][SessionCheckFails => (auth'.user = NoUser /\ token' = NoToken)]_vars
  /\ (auth.pc = "check") ~> (~auth.isLoading)

\* The who-am-I call has just failed: no user, no token.
C15_Witness ==
  /\ obs.call = "GET /users/me"
  /\ obs.status = "err"
  /\ auth.user = NoUser
  /\ token = NoToken


\* The notification call comes back with one of the given outcomes.
EmailEnds(outcomes) ==
  /\ obs'.call = "POST /notifications/email"
  /\ obs'.status \in outcomes

\* What C17 says follows the notification call, whatever its outcome: after
\* a creation the list is fetched again (for a user still signed in: the
\* fetch effect returns at once without one) and the form handler is done; after
\* a file submission in a view still shown the success banner is up, the
\* buffer stays as the submission left it and the server keeps what was saved.
PrimaryActionCompleted ==
  /\ cr.pc = "email" =>
       /\ auth.user # NoUser => app'.fetching = app.fetching + 1
       /\ cr' = HandlerIdle
       /\ srv' = srv
  /\ (sub.pc = "email" /\ sub.live) =>
       /\ det'.banner = "Files submitted successfully."
       /\ ~det'.isSavingResults
       /\ det'.pendingFiles = det.pendingFiles
       /\ srv' = srv

C17_CreateWitness ==
  /\ obs.call = "POST /notifications/email"
  /\ obs.status = "err"
  /\ obs.by # "handleSubmitFiles"
  /\ app.fetching > 0
  /\ cr = HandlerIdle


\* A step that puts no request on the wire and leaves every handler, the
\* session and the server as they are.
NoRequestIssued ==
  /\ UNCHANGED <<srv, token, auth, app, sub, sc, an, cr, dl>>
  /\ det'.refreshing = det.refreshing
  /\ det'.isSavingResults = det.isSavingResults

\* More result files are stored for some ticket than before.
FilesArrive ==
  \E i \in TicketIds :
    /\ srv[i].exists
    /\ srv'[i].exists
    /\ srv'[i].nFiles > srv[i].nFiles

\* C19: adding to and removing from the pending buffer issues no request;
\* the upload is started only by the submit handler, only with a non-empty
\* buffer and with exactly the buffered files; files reach the server only
\* through that upload.
C19_BufferSentOnlyOnSubmit ==
  [][ /\ (handleAddFiles \/ handleRemovePendingFile) => NoRequestIssued
      /\ (sub.pc # "post" /\ sub'.pc = "post") =>
           /\ sub'.by = "handleSubmitFiles"
           /\ det.pendingFiles > 0
           /\ sub'.batch = det.pendingFiles
           /\ ops' = ops + 1
      /\ FilesArrive => sub.pc = "post" ]_vars

\* Files are buffered, none of them is on the server and no submission is
\* under way.
C19_Witness ==
  /\ det.mounted
  /\ det.pendingFiles = MaxPending
  /\ sub.pc = "idle"
  /\ obs = NoObs
  /\ srv[det.localReq.id].nFiles = det.resultFiles

\* The buffered files were uploaded by a submission.
C19_UploadWitness ==
  /\ obs.call = "POST /requests/:id/result-files"
  /\ obs.status = "ok"
  /\ sub.batch > 0


\* C21: once the user has signed out, no step changes the ticket list or
\* the selected ticket held by the document that is still on screen.
C21_NoTicketChangeAfterLogout ==
  [][(auth.pc = "unload" /\ auth'.pc = "unload") =>
       /\ app'.requests = app.requests
       /\ app'.selectedRequest = app.selectedRequest]_vars


\* The detail view stays on one ticket and its pending buffer changes.
BufferChanged ==
  /\ det.mounted /\ det'.mounted
  /\ det'.localReq.id = det.localReq.id
  /\ det'.pendingFiles # det.pendingFiles

\* C26: the pending-upload buffer changes only by adding files, removing a
\* pending file or a successful submit; a status change, an analysis or the
\* parent's refresh after them leaves it as it is.
C26_BufferChangesOnlyByItsActions ==
  [][BufferChanged => (handleAddFiles \/ handleRemovePendingFile \/ SubmitGet)]_vars

\* C29: once the detail view is left (Back, a sidebar navigation, logout)
\* the selected ticket stays null until the user selects a ticket: a step
\* that takes the selection from null to a ticket is onViewRequest.
C29_SelectionOnlyByUser ==
  [][(app.selectedRequest = NoTicket /\ app'.selectedRequest # NoTicket) => onViewRequest]_vars

(***************************************************************************)
(* Developer dashboard statistics (DeveloperPortal)                        *)
(***************************************************************************)
\* 1000 * 60 * 60 * 24
DayMs == 86400000

\* The fields of a ticket the statistic reads.
StatTickets ==
  [ status : RequestStatus, createdAt : 0..MaxStatClock, updatedAt : 0..MaxStatClock ]

\* JavaScript numbers as far as the statistic produces them: a quotient of
\* naturals, or NaN.
Num(n, d) == [ kind |-> "number", num |-> n, den |-> d ]

NaN == [ kind |-> "NaN", num |-> 0, den |-> 0 ]

\* a / b for a a number and b a natural.
JsDiv(a, b) ==
  IF a.kind = "NaN" THEN NaN
  ELSE IF b = 0 THEN (IF a.num = 0 THEN NaN ELSE [ kind |-> "Infinity", num |-> 0, den |-> 0 ])
  ELSE Num(a.num, a.den * b)

completedForStats(requests) ==
  SelectSeq(requests, LAMBDA r : r.status = "COMPLETED")

\* reduce((acc, r) => acc + Math.max(0, r.updatedAt - r.createdAt), 0)
RECURSIVE sumTurnaround(_)
sumTurnaround(rs) ==
  IF rs = <<>> THEN 0
  ELSE sumTurnaround(SubSeq(rs, 1, Len(rs) - 1))
         + Max(0, rs[Len(rs)].updatedAt - rs[Len(rs)].createdAt)

\* Faulty variant: the average is taken without looking at the length.
avgTurnaroundDaysUnguarded(requests) ==
  LET done == completedForStats(requests)
  IN [ value |-> JsDiv(JsDiv(Num(sumTurnaround(done), 1), Len(done)), DayMs),
       divisions |-> 2 ]

\* The value of avgTurnaroundDays and the number of divisions evaluated.
avgTurnaroundDays(requests) ==
  LET done == completedForStats(requests)
  IN IF Len(done) # 0
     THEN [ value |-> JsDiv(JsDiv(Num(sumTurnaround(done), 1), Len(done)), DayMs),
            divisions |-> 2 ]
     ELSE [ value |-> Num(0, 1), divisions |-> 0 ]

NoStats == [ value |-> NaN, divisions |-> -1 ]

StatInit ==
  /\ statRequests \in SeqsUpTo(StatTickets, MaxStatRequests)
  /\ stats = NoStats

StatIdle ==
  /\ statRequests = <<>>
  /\ stats = NoStats

\* DeveloperPortal render with the requests prop.
RenderStats ==
  /\ stats = NoStats
  /\ stats' = avgTurnaroundDays(statRequests)
  /\ UNCHANGED statRequests
  /\ UNCHANGED notStatVars

StatNext == RenderStats

\* C11: when the list holds no COMPLETED ticket (the empty list included)
\* the average turnaround shown is the number 0 and no division was
\* evaluated.
C11_ZeroWithoutCompleted ==
  (stats # NoStats /\ completedForStats(statRequests) = <<>>) =>
    /\ stats.value = Num(0, 1)
    /\ stats.divisions = 0

\* The statistic has been computed for a non-empty list without a COMPLETED
\* ticket.
C11_Witness ==
  /\ stats # NoStats
  /\ Len(statRequests) > 0
  /\ completedForStats(statRequests) = <<>>


(***************************************************************************)
(* HTTP wrapper: decoding of a non-2xx response (apiClient.buildError)     *)
(***************************************************************************)
Undefined == "undefined"

\* The response bodies considered, each with what JSON.parse makes of it and
\* what JSON.stringify gives back for the parsed value.
ErrorBodies ==
  { [ raw |-> "{\"detail\":\"Not found\"}", json |-> TRUE,
      detail |-> "Not found", message |-> Undefined,
      stringified |-> "{\"detail\":\"Not found\"}" ],
    [ raw |-> "{\"message\":\"Bad input\"}", json |-> TRUE,
      detail |-> Undefined, message |-> "Bad input",
      stringified |-> "{\"message\":\"Bad input\"}" ],
    [ raw |-> "{\"detail\":\"\",\"message\":\"Bad input\"}", json |-> TRUE,
      detail |-> "", message |-> "Bad input",
      stringified |-> "{\"detail\":\"\",\"message\":\"Bad input\"}" ],
    [ raw |-> "{\"code\":7}", json |-> TRUE,
      detail |-> Undefined, message |-> Undefined,
      stringified |-> "{\"code\":7}" ],
    [ raw |-> "{ \"code\": 7 }", json |-> TRUE,
      detail |-> Undefined, message |-> Undefined,
      stringified |-> "{\"code\":7}" ],
    [ raw |-> "Internal Server Error", json |-> FALSE,
      detail |-> Undefined, message |-> Undefined, stringified |-> "" ],
    [ raw |-> "", json |-> FALSE,
      detail |-> Undefined, message |-> Undefined, stringified |-> "" ] }

ErrorStatuses == {400, 401, 403, 404, 500}

\* The non-2xx responses handed to buildError; the body is still unread.
ErrorResponses ==
  [ status : ErrorStatuses, statusText : {"", "Error"}, body : ErrorBodies,
    bodyUsed : {FALSE} ]

\* JavaScript truthiness of a field value.
Truthy(v) == v # Undefined /\ v # ""

\* What an awaited call gives: a value, or a rejection.
Fulfilled(v) == [ ok |-> TRUE, value |-> v, error |-> "" ]

Rejected(e) == [ ok |-> FALSE, value |-> Undefined, error |-> e ]

\* Reading a body marks it used, whatever comes of the read; a used body
\* cannot be read again.
Consumed(res) == [ res EXCEPT !.bodyUsed = TRUE ]

\* res.json()
ResJson(res) ==
  IF res.bodyUsed THEN Rejected("TypeError: body stream already read")
  ELSE IF res.body.json THEN Fulfilled(res.body)
  ELSE Rejected("SyntaxError")

\* res.text()
ResText(res) ==
  IF res.bodyUsed THEN Rejected("TypeError: body stream already read")
  ELSE Fulfilled(res.body.raw)

Error(message) == [ kind |-> "Error", message |-> message ]

\* What the caller of buildError gets thrown: the Error buildError returned,
\* or the failure that escaped from it.
Escaped(e) == [ kind |-> "escaped", message |-> e ]

\* buildError: the JSON body's detail or message, else the re-serialised
\* JSON; when the body is no JSON, the text read from the same response, else
\* the status text.
buildError(res) ==
  LET parsed == ResJson(res)
  IN IF parsed.ok
     THEN LET data == parsed.value
              detail == IF Truthy(data.detail) THEN data.detail ELSE data.message
          IN IF Truthy(detail) THEN Error(detail) ELSE Error(data.stringified)
     ELSE LET text == ResText(Consumed(res))
          IN IF text.ok
             THEN Error(IF text.value # "" THEN text.value ELSE res.statusText)
             ELSE Escaped(text.error)

NoError == [ kind |-> "none", message |-> "" ]

ErrInit ==
  /\ errRes \in ErrorResponses
  /\ errThrown = NoError

ErrIdle ==
  /\ errRes = [ status |-> 500, statusText |-> "", bodyUsed |-> FALSE,
                body |-> CHOOSE b \in ErrorBodies : b.raw = "" ]
  /\ errThrown = NoError

\* if (!res.ok) throw await buildError(res)
ThrowBuildError ==
  /\ errThrown = NoError
  /\ errThrown' = buildError(errRes)
  /\ UNCHANGED errRes
  /\ UNCHANGED notErrVars

ErrNext == ThrowBuildError

\* The message the decoding is said to give: the body's detail or message
\* field when the body is JSON and has one, else the raw text, else the status
\* text.
DecodedMessage(res) ==
  IF res.body.json /\ Truthy(res.body.detail) THEN res.body.detail
  ELSE IF res.body.json /\ Truthy(res.body.message) THEN res.body.message
  ELSE IF res.body.raw # "" THEN res.body.raw
  ELSE res.statusText

\* C16: for every non-2xx response the caller is thrown an Error carrying the
\* decoded message, never a failure of the decoding itself.
C16_CallerGetsDecodedError ==
  errThrown # NoError => errThrown = Error(DecodedMessage(errRes))

(***************************************************************************)
(* AppContent: overlapping ticket-list fetches                             *)
(***************************************************************************)
MaxFetches == 2
MaxVersions == 2
MaxFetchRuns == 3

FetchSlots == 1..MaxFetches

\* The list before any response: useState([]).
EmptyList == -1

FetchIdleSlot == [ pc |-> "idle", status |-> "", payload |-> EmptyList, run |-> 0 ]

NoFetchObs == [ slot |-> 0, status |-> "", payload |-> EmptyList, run |-> 0 ]

FetchInit ==
  /\ fList = EmptyList
  /\ fSlots = [ i \in FetchSlots |-> FetchIdleSlot ]
  /\ fVer = 0
  /\ fIssued = 0
  /\ fObs = NoFetchObs

FetchIdle == FetchInit

\* The fetch effect runs for a bumped refreshTrigger or pollTick: fetchData
\* sends GET /requests.
fetchData ==
  /\ fIssued < MaxFetchRuns
  /\ \E i \in FetchSlots :
       /\ fSlots[i].pc = "idle"
       /\ fSlots' = [ fSlots EXCEPT ![i] = [ FetchIdleSlot EXCEPT !.pc = "sent",
                                                             !.run = fIssued + 1 ] ]
  /\ fIssued' = fIssued + 1
  /\ fObs' = NoFetchObs
  /\ UNCHANGED <<fList, fVer>>
  /\ UNCHANGED notFetchVars

\* Some other client changes the tickets on the server.
ServerListChanges ==
  /\ fVer < MaxVersions
  /\ fVer' = fVer + 1
  /\ fObs' = NoFetchObs
  /\ UNCHANGED <<fList, fSlots, fIssued>>
  /\ UNCHANGED notFetchVars

\* The server answers one of the pending calls with the list it holds then,
\* or with a failure.
ServerAnswersFetch ==
  /\ \E i \in FetchSlots, o \in {"ok", "auth", "err"} :
       /\ fSlots[i].pc = "sent"
       /\ fSlots' = [ fSlots EXCEPT ![i] =
                        [ @ EXCEPT !.pc = "answered", !.status = o,
                                   !.payload = IF o = "ok" THEN fVer ELSE EmptyList ] ]
  /\ fObs' = NoFetchObs
  /\ UNCHANGED <<fList, fVer, fIssued>>
  /\ UNCHANGED notFetchVars

\* Faulty variant: a response is applied only when no later run was started.
setRequestsIfLatest(slot) ==
  IF slot.status = "ok" /\ slot.run = fIssued THEN slot.payload ELSE fList

\* try { setRequests(await getRequests()) } catch { console.error }
setRequests(slot) ==
  IF slot.status = "ok" THEN slot.payload ELSE fList

\* One answered call reaches its handler. On 401/403 buildError has the page
\* reloaded: the list starts empty again and the other calls are gone.
FetchSettles ==
  /\ \E i \in FetchSlots :
       /\ fSlots[i].pc = "answered"
       /\ fObs' = [ slot |-> i, status |-> fSlots[i].status,
                    payload |-> fSlots[i].payload, run |-> fSlots[i].run ]
       /\ IF fSlots[i].status = "auth"
          THEN /\ fList' = EmptyList
               /\ fSlots' = [ j \in FetchSlots |-> FetchIdleSlot ]
          ELSE /\ fList' = setRequests(fSlots[i])
               /\ fSlots' = [ fSlots EXCEPT ![i] = FetchIdleSlot ]
  /\ UNCHANGED <<fVer, fIssued>>
  /\ UNCHANGED notFetchVars

FetchNext == fetchData \/ ServerListChanges \/ ServerAnswersFetch \/ FetchSettles

\* A response of one of the given outcomes has just reached its handler.
FetchSettled(outcomes) == fObs'.slot # 0 /\ fObs'.status \in outcomes

\* What C22 says of a settled fetch: a successful one puts its payload in the
\* list whatever was issued after it, a failed one leaves the list alone.
LastResolvedWins ==
  fList' = IF fObs'.status = "ok" THEN fObs'.payload ELSE fList

MaxLogins == 2
MaxLoginRuns == 3

LoginSlots == 1..MaxLogins

Accounts == {"dev", "emp"}

\* sessionStorage without 'rah_access_token'; useState<User | null>(null).
NoStoredToken == 0

NoCurrentUser == [ who |-> "null", run |-> 0 ]

LoginIdleSlot == [ pc |-> "idle", who |-> "null", status |-> "", run |-> 0 ]

NoLoginObs == [ slot |-> 0, status |-> "", run |-> 0, who |-> "null" ]

\* The provider once its session check found no token.
LoginInit ==
  /\ lToken = NoStoredToken
  /\ lUser = NoCurrentUser
  /\ lIsLoading = FALSE
  /\ lSlots = [ i \in LoginSlots |-> LoginIdleSlot ]
  /\ lRuns = 0
  /\ lObs = NoLoginObs

LoginIdle == LoginInit

\* A consumer of the context calls login(email, password):
\* setIsLoading(true), then POST /auth/login is sent.
ProviderLogin ==
  /\ lRuns < MaxLoginRuns
  /\ \E i \in LoginSlots, who \in Accounts :
       /\ lSlots[i].pc = "idle"
       /\ lSlots' = [ lSlots EXCEPT ![i] = [ pc |-> "sent", who |-> who,
                                             status |-> "", run |-> lRuns + 1 ] ]
  /\ lRuns' = lRuns + 1
  /\ lIsLoading' = TRUE
  /\ lObs' = NoLoginObs
  /\ UNCHANGED <<lToken, lUser>>
  /\ UNCHANGED notLoginVars

\* The server answers one pending POST /auth/login: {access_token, user}, a
\* 2xx body without access_token, 401/403, or another failure.
ServerAnswersLogin ==
  /\ \E i \in LoginSlots, o \in {"ok", "notoken", "auth", "err"} :
       /\ lSlots[i].pc = "sent"
       /\ lSlots' = [ lSlots EXCEPT ![i] = [ @ EXCEPT !.pc = "answered", !.status = o ] ]
  /\ lObs' = NoLoginObs
  /\ UNCHANGED <<lToken, lUser, lIsLoading, lRuns>>
  /\ UNCHANGED notLoginVars

\* Faulty variant: a rejected login signs the current user out.
loginSettledSignOut(slot) ==
  IF slot.status = "ok"
  THEN [ token |-> slot.run, user |-> [ who |-> slot.who, run |-> slot.run ] ]
  ELSE [ token |-> lToken, user |-> NoCurrentUser ]

\* login stores response.access_token and returns response.user, which the
\* provider passes to setUser in the continuation that follows directly; a
\* rejection passes through try/finally without touching either.
loginSettled(slot) ==
  IF slot.status = "ok"
  THEN [ token |-> slot.run, user |-> [ who |-> slot.who, run |-> slot.run ] ]
  ELSE [ token |-> lToken, user |-> lUser ]

\* One answered call reaches its continuations; finally { setIsLoading(false) }.
\* On 401/403 buildError removes the token and reloads the page: the new
\* document finds no token, has no user, and the other calls are gone.
LoginSettles ==
  /\ \E i \in LoginSlots :
       /\ lSlots[i].pc = "answered"
       /\ lObs' = [ slot |-> i, status |-> lSlots[i].status, run |-> lSlots[i].run,
                    who |-> lSlots[i].who ]
       /\ IF lSlots[i].status = "auth"
          THEN /\ lToken' = NoStoredToken
               /\ lUser' = NoCurrentUser
               /\ lSlots' = [ j \in LoginSlots |-> LoginIdleSlot ]
          ELSE /\ lToken' = loginSettled(lSlots[i]).token
               /\ lUser' = loginSettled(lSlots[i]).user
               /\ lSlots' = [ lSlots EXCEPT ![i] = LoginIdleSlot ]
  /\ lIsLoading' = FALSE
  /\ UNCHANGED lRuns
  /\ UNCHANGED notLoginVars

LoginNext == ProviderLogin \/ ServerAnswersLogin \/ LoginSettles

\* A login call of one of the given outcomes has just settled.
LoginSettled(outcomes) == lObs'.slot # 0 /\ lObs'.status \in outcomes

\* What C23 says of a settled call: a successful one overwrites the token and
\* the user with its own, a failed one changes neither.
LastLoginWins ==
  IF lObs'.status = "ok"
  THEN lToken' = lObs'.run /\ lUser' = [ who |-> lObs'.who, run |-> lObs'.run ]
  ELSE lToken' = lToken /\ lUser' = lUser

\* With no call pending, token and user come from the same call.
TokenMatchesUser ==
  (\A i \in LoginSlots : lSlots[i].pc = "idle") => lToken = lUser.run

C23_FailWitness ==
  /\ lObs.status \in {"err", "notoken"}
  /\ lUser # NoCurrentUser
  /\ lToken = lUser.run

(***************************************************************************)
(* UserManagement: deleting a user                                         *)
(***************************************************************************)
MaxUsers == 3

UserIds == 1..MaxUsers

\* The pre-seeded accounts (isDemo).
DemoUsers == {1}

\* UserManagement.tsx holds the component in three revisions: the one at the
\* top of the file and the two sides of the unresolved merge below it. The
\* build has one of them.
Revisions == {"top", "HEAD", "36dcac0"}

NoUserObs == [ call |-> "", status |-> "", id |-> 0 ]

\* The component after its first loadUsers.
UsersInit ==
  /\ uRev \in Revisions
  /\ uSrv = UserIds
  /\ uList = UserIds
  /\ uPc = "idle"
  /\ uTarget = 0
  /\ uFailed = FALSE
  /\ uBanner = "null"
  /\ uObs = NoUserObs

UsersIdle ==
  /\ uRev = "top"
  /\ uSrv = UserIds
  /\ uList = UserIds
  /\ uPc = "idle"
  /\ uTarget = 0
  /\ uFailed = FALSE
  /\ uBanner = "null"
  /\ uObs = NoUserObs

\* Another administrator removes an account.
ServerUserRemoved ==
  /\ \E id \in uSrv : uSrv' = uSrv \ {id}
  /\ uSrv' # {}
  /\ uObs' = NoUserObs
  /\ UNCHANGED <<uRev, uList, uPc, uTarget, uFailed, uBanner>>
  /\ UNCHANGED notUsersVars

\* HEAD: setUsers(prev => prev.filter(u => u.id !== id)) before the call; the
\* other revisions leave the list to loadUsers.
listOnDelete(rev, id) == IF rev = "HEAD" THEN uList \ {id} ELSE uList

\* Click on the trash button of a row.
handleDeleteUser ==
  /\ uPc = "idle"
  /\ \E id \in uList, confirmed \in BOOLEAN :
       IF uRev = "HEAD" /\ id \in DemoUsers
       THEN /\ uBanner' = "Demo accounts can be removed from the cleanup button below."
            /\ uObs' = [ call |-> "demo", status |-> "", id |-> id ]
            /\ UNCHANGED <<uList, uPc, uTarget, uFailed>>
       ELSE IF ~confirmed
       THEN /\ uObs' = [ call |-> "confirm", status |-> "cancel", id |-> id ]
            /\ UNCHANGED <<uList, uPc, uTarget, uFailed, uBanner>>
       ELSE /\ uList' = listOnDelete(uRev, id)
            /\ uPc' = "delete"
            /\ uTarget' = id
            /\ uFailed' = FALSE
            /\ uBanner' = IF uRev = "36dcac0" THEN "null" ELSE uBanner
            /\ uObs' = NoUserObs
  /\ UNCHANGED <<uRev, uSrv>>
  /\ UNCHANGED notUsersVars

\* The handler has run to its end.
UserHandlerDone(status) ==
  /\ uPc' = "idle"
  /\ uObs' = [ call |-> "DELETE /users/:id", status |-> status, id |-> uTarget ]

\* On 401/403 buildError removes the token and reloads the page: the view is
\* gone with its list.
UsersPageReload ==
  /\ uList' = {}
  /\ uBanner' = "null"
  /\ uFailed' = uFailed
  /\ UserHandlerDone("auth")

\* DELETE /users/:id resolves. It fails for a user the server no longer has,
\* and may fail for any other.
DeleteUserSettles ==
  /\ uPc = "delete"
  /\ \E o \in {"ok", "err", "auth"} :
       /\ (uTarget \notin uSrv) => o # "ok"
       /\ CASE o = "ok" ->
                 /\ uSrv' = uSrv \ {uTarget}
                 /\ uPc' = "load"
                 /\ uObs' = NoUserObs
                 /\ UNCHANGED <<uList, uFailed, uBanner>>
            [] o = "err" ->
                 /\ uFailed' = TRUE
                 /\ uBanner' = "Failed to delete user"
                 /\ IF uRev = "top"
                    THEN uPc' = "load" /\ uObs' = NoUserObs
                    ELSE UserHandlerDone("err")
                 /\ UNCHANGED <<uSrv, uList>>
            [] o = "auth" ->
                 /\ UsersPageReload
                 /\ UNCHANGED uSrv
  /\ UNCHANGED <<uRev, uTarget>>
  /\ UNCHANGED notUsersVars

\* GET /users of loadUsers resolves. In the top revision a rejection inside
\* the try reaches the catch, which sets the banner and loads once more; one
\* inside the catch leaves the handler.
LoadUsersSettles ==
  /\ uPc = "load"
  /\ \E o \in {"ok", "err", "auth"} :
       CASE o = "ok" ->
              /\ uList' = uSrv
              /\ uBanner' = IF uFailed THEN uBanner ELSE "User removed and list refreshed"
              /\ UserHandlerDone(IF uFailed THEN "err" ELSE "ok")
              /\ UNCHANGED uFailed
         [] o = "err" ->
              IF uRev = "top" /\ ~uFailed
              THEN /\ uFailed' = TRUE
                   /\ uBanner' = "Failed to remove user"
                   /\ uObs' = [ call |-> "GET /users", status |-> "err", id |-> uTarget ]
                   /\ UNCHANGED <<uList, uPc>>
              ELSE /\ uBanner' = IF uRev = "HEAD" THEN "User removed and list refreshed." ELSE uBanner
                   /\ UserHandlerDone(IF uFailed THEN "err" ELSE "loaderr")
                   /\ UNCHANGED <<uList, uFailed>>
         [] o = "auth" -> UsersPageReload
  /\ UNCHANGED <<uRev, uSrv, uTarget>>
  /\ UNCHANGED notUsersVars

UsersNext ==
  handleDeleteUser \/ ServerUserRemoved \/ DeleteUserSettles \/ LoadUsersSettles

\* A handler whose delete call failed (not with 401/403) has just ended.
DeleteFailureHandled ==
  /\ uPc = "delete" \/ (uPc = "load" /\ uFailed)
  /\ uObs'.call = "DELETE /users/:id"
  /\ uObs'.status = "err"

\* C24: when a user-delete call has failed and the failure is handled, the
\* list shown still has that user if the server has.
C24_FailedDeleteKeepsUser ==
  [][(DeleteFailureHandled /\ uTarget \in uSrv') => uTarget \in uList']_vars

(***************************************************************************)
(* Login form under AppContent's authLoading / !user branches              *)
(***************************************************************************)
MaxMounts == 6

\* A Login instance: which mount it is, and its useState values.
NoForm == [ id |-> 0, email |-> "", password |-> "", showPassword |-> FALSE,
           error |-> "", isSubmitting |-> FALSE ]

FreshForm(n) == [ NoForm EXCEPT !.id = n ]

NoCall == [ pc |-> "idle", inst |-> 0, who |-> "" ]

NoFormObs == [ status |-> "", message |-> "", inst |-> 0 ]

LoginMessages == {"Incorrect email or password", "Failed to login"}

\* After the session check found no token: !user, Login mounted first time.
FormInit ==
  /\ gIsLoading = FALSE
  /\ gUser = "null"
  /\ gReg = FALSE
  /\ gForm = FreshForm(1)
  /\ gMounts = 1
  /\ gCall = NoCall
  /\ gObs = NoFormObs

FormIdle == FormInit

\* What AppContent renders below the provider.
Screen(loading, user, reg) ==
  IF loading THEN "spinner"
  ELSE IF user = "null" THEN (IF reg THEN "registration" ELSE "login")
  ELSE "app"

\* React keeps the Login instance while AppContent returns <Login/>, drops it
\* with its state when another branch is returned, and mounts a new one with
\* the useState defaults when <Login/> is returned again.
RenderedForm(form, mounts, loading, user, reg) ==
  IF Screen(loading, user, reg) # "login"
  THEN [ form |-> NoForm, mounts |-> mounts ]
  ELSE IF form.id # 0
  THEN [ form |-> form, mounts |-> mounts ]
  ELSE [ form |-> FreshForm(mounts + 1), mounts |-> mounts + 1 ]

\* setState of an instance that is no longer mounted is dropped.
SetOn(form, inst, field, value) ==
  IF form.id = inst /\ inst # 0 THEN [ form EXCEPT ![field] = value ] ELSE form

\* Typing into the email field.
setEmail ==
  /\ gForm.id # 0
  /\ \E e \in {"dev@code.com", "arch@design.com"} :
       /\ gForm.email # e
       /\ gForm' = [ gForm EXCEPT !.email = e ]
  /\ gObs' = NoFormObs
  /\ UNCHANGED <<gIsLoading, gUser, gReg, gMounts, gCall>>
  /\ UNCHANGED notFormVars

\* Typing into the password field.
setPassword ==
  /\ gForm.id # 0
  /\ \E pw \in {"python", "revit"} :
       /\ gForm.password # pw
       /\ gForm' = [ gForm EXCEPT !.password = pw ]
  /\ gObs' = NoFormObs
  /\ UNCHANGED <<gIsLoading, gUser, gReg, gMounts, gCall>>
  /\ UNCHANGED notFormVars

\* The eye button of the password field.
setShowPassword ==
  /\ gForm.id # 0
  /\ gForm' = [ gForm EXCEPT !.showPassword = ~gForm.showPassword ]
  /\ gObs' = NoFormObs
  /\ UNCHANGED <<gIsLoading, gUser, gReg, gMounts, gCall>>
  /\ UNCHANGED notFormVars

\* onShowRegistration / onBackToLogin.
setShowRegistration ==
  /\ Screen(gIsLoading, gUser, gReg) \in {"login", "registration"}
  /\ gReg \/ gMounts < MaxMounts
  /\ gReg' = ~gReg
  /\ LET r == RenderedForm(gForm, gMounts, gIsLoading, gUser, gReg')
     IN  gForm' = r.form /\ gMounts' = r.mounts
  /\ gObs' = NoFormObs
  /\ UNCHANGED <<gIsLoading, gUser, gCall>>
  /\ UNCHANGED notFormVars

\* handleSubmit / handleDemoLogin: performLogin clears the error, sets
\* isSubmitting and calls login, which sets isLoading before the POST; the
\* render after the event shows the spinner.
performLogin ==
  /\ gForm.id # 0
  /\ ~gForm.isSubmitting
  /\ gForm.email # ""
  /\ gMounts < MaxMounts
  /\ gCall' = [ pc |-> "sent", inst |-> gForm.id, who |-> gForm.email ]
  /\ gIsLoading' = TRUE
  /\ LET f == [ gForm EXCEPT !.error = "", !.isSubmitting = TRUE ]
         r == RenderedForm(f, gMounts, TRUE, gUser, gReg)
     IN  gForm' = r.form /\ gMounts' = r.mounts
  /\ gObs' = NoFormObs
  /\ UNCHANGED <<gUser, gReg>>
  /\ UNCHANGED notFormVars

\* POST /auth/login succeeds: setUser, finally setIsLoading(false), then
\* performLogin's finally on the calling instance.
LoginSucceeds ==
  /\ gCall.pc = "sent"
  /\ gUser' = gCall.who
  /\ gIsLoading' = FALSE
  /\ LET r == RenderedForm(gForm, gMounts, FALSE, gUser', gReg)
     IN  /\ gForm' = SetOn(r.form, gCall.inst, "isSubmitting", FALSE)
         /\ gMounts' = r.mounts
  /\ gCall' = NoCall
  /\ gObs' = [ status |-> "ok", message |-> "", inst |-> gCall.inst ]
  /\ UNCHANGED gReg
  /\ UNCHANGED notFormVars

\* POST /auth/login is rejected with a message: the provider's finally sets
\* isLoading false, then performLogin's catch and finally run setError and
\* setIsSubmitting(false) on the instance that made the call.
LoginFails ==
  /\ gCall.pc = "sent"
  /\ \E message \in LoginMessages :
       /\ gIsLoading' = FALSE
       /\ LET r == RenderedForm(gForm, gMounts, FALSE, gUser, gReg)
              e == SetOn(r.form, gCall.inst, "error", message)
          IN  /\ gForm' = SetOn(e, gCall.inst, "isSubmitting", FALSE)
              /\ gMounts' = r.mounts
       /\ gObs' = [ status |-> "err", message |-> message, inst |-> gCall.inst ]
  /\ gCall' = NoCall
  /\ UNCHANGED <<gUser, gReg>>
  /\ UNCHANGED notFormVars

\* POST /auth/login is answered 401/403: buildError reloads the page, and the
\* new document mounts its own Login once its session check found no token.
LoginUnauthorized ==
  /\ gCall.pc = "sent"
  /\ gIsLoading' = FALSE
  /\ gUser' = "null"
  /\ gReg' = FALSE
  /\ gForm' = FreshForm(gMounts + 1)
  /\ gMounts' = gMounts + 1
  /\ gCall' = NoCall
  /\ gObs' = [ status |-> "auth", message |-> "Session expired. Please sign in again.",
               inst |-> gCall.inst ]
  /\ UNCHANGED notFormVars

\* handleLogout of the signed-in user (the page reload that follows mounts
\* the login view anew).
FormLogout ==
  /\ gUser # "null"
  /\ gMounts < MaxMounts
  /\ gUser' = "null"
  /\ gReg' = FALSE
  /\ gForm' = FreshForm(gMounts + 1)
  /\ gMounts' = gMounts + 1
  /\ gObs' = [ status |-> "logout", message |-> "", inst |-> 0 ]
  /\ UNCHANGED <<gIsLoading, gCall>>
  /\ UNCHANGED notFormVars

FormNext ==
  \/ setEmail
  \/ setPassword
  \/ setShowPassword
  \/ setShowRegistration
  \/ performLogin
  \/ LoginSucceeds
  \/ LoginFails
  \/ LoginUnauthorized
  \/ FormLogout

\* C25: after a failed login has been handled the login view is shown and
\* the Login instance on screen holds the message of the failure.
C25_FailedLoginShowsMessage ==
  [][gObs'.status \in {"err", "auth"} =>
       /\ Screen(gIsLoading', gUser', gReg') = "login"
       /\ gForm'.id # 0
       /\ gForm'.error = gObs'.message]_vars

(***************************************************************************)
(* RequestDetail: the file stack of one mounted view, with every call the  *)
(* view can have pending at once                                           *)
(***************************************************************************)
MaxFiles == 2
MaxSubmits == 2
MaxSubmitRuns == 2
MaxDeletes == 1

\* Files by name: a pending File and the Attachment saved from it share it.
FileNames == 1..MaxFiles

SubmitSlots == 1..MaxSubmits

IdleSubmit == [ pc |-> "idle", batch |-> {} ]

IdleDelete == [ pc |-> "idle", file |-> 0 ]

NoStackObs == [ call |-> "", status |-> "", slot |-> 0 ]

\* A ticket opened by a developer, with or without a saved result file.
StackInit ==
  /\ kSrv \in {{}, {1}}
  /\ kResult = kSrv
  /\ kPending = {}
  /\ kSaving = FALSE
  /\ kSub = [ i \in SubmitSlots |-> IdleSubmit ]
  /\ kDel = IdleDelete
  /\ kUpd = FALSE
  /\ kPosts = [ f \in FileNames |-> 0 ]
  /\ kRuns = [ submits |-> 0, deletes |-> 0 ]
  /\ kBanner = "null"
  /\ kObs = NoStackObs

StackIdle ==
  /\ kSrv = {}
  /\ kResult = {}
  /\ kPending = {}
  /\ kSaving = FALSE
  /\ kSub = [ i \in SubmitSlots |-> IdleSubmit ]
  /\ kDel = IdleDelete
  /\ kUpd = FALSE
  /\ kPosts = [ f \in FileNames |-> 0 ]
  /\ kRuns = [ submits |-> 0, deletes |-> 0 ]
  /\ kBanner = "null"
  /\ kObs = NoStackObs

StackFrame(changed) ==
  /\ UNCHANGED notStackVars
  /\ \A v \in {"srv", "result", "pending", "saving", "sub", "del", "upd", "posts",
               "runs", "banner"} \ changed :
       CASE v = "srv" -> kSrv' = kSrv
         [] v = "result" -> kResult' = kResult
         [] v = "pending" -> kPending' = kPending
         [] v = "saving" -> kSaving' = kSaving
         [] v = "sub" -> kSub' = kSub
         [] v = "del" -> kDel' = kDel
         [] v = "upd" -> kUpd' = kUpd
         [] v = "posts" -> kPosts' = kPosts
         [] v = "runs" -> kRuns' = kRuns
         [] v = "banner" -> kBanner' = kBanner

\* 401/403 of any call: buildError reloads the page; the new view starts
\* from the server's files with nothing pending and no call of its own.
StackReload(call) ==
  /\ kResult' = kSrv
  /\ kPending' = {}
  /\ kSaving' = FALSE
  /\ kSub' = [ i \in SubmitSlots |-> IdleSubmit ]
  /\ kDel' = IdleDelete
  /\ kUpd' = FALSE
  /\ kBanner' = "null"
  /\ kObs' = [ call |-> call, status |-> "auth", slot |-> 0 ]
  /\ StackFrame({"result", "pending", "saving", "sub", "del", "upd", "banner"})

\* handleAddFiles: files not yet in the buffer are appended.
StackAddFiles ==
  /\ \E files \in (SUBSET (FileNames \ kPending)) \ {{}} :
       kPending' = kPending \cup files
  /\ kObs' = NoStackObs
  /\ StackFrame({"pending"})

\* handleRemovePendingFile.
StackRemovePending ==
  /\ \E f \in kPending : kPending' = kPending \ {f}
  /\ kObs' = NoStackObs
  /\ StackFrame({"pending"})

\* The parent's refresh of onUpdate resolves and hands a new request prop
\* to the view: the sync effect takes its files and empties the buffer.
StackUpdateSettles ==
  /\ kUpd
  /\ \E o \in {"ok", "err", "auth"} :
       CASE o = "ok" ->
              /\ kResult' = kSrv
              /\ kPending' = {}
              /\ kUpd' = FALSE
              /\ kObs' = [ call |-> "GET /requests", status |-> "ok", slot |-> 0 ]
              /\ StackFrame({"result", "pending", "upd"})
         [] o = "err" ->
              /\ kUpd' = FALSE
              /\ kObs' = [ call |-> "GET /requests", status |-> "err", slot |-> 0 ]
              /\ StackFrame({"upd"})
         [] o = "auth" -> StackReload("GET /requests")

\* Click on Submit Files / Resubmit Files, enabled unless isSavingResults.
StackSubmitFiles ==
  /\ ~kSaving
  /\ kRuns.submits < MaxSubmitRuns
  /\ IF kPending = {}
     THEN /\ kBanner' = "Add at least one file to submit or resubmit."
          /\ kObs' = [ call |-> "handleSubmitFiles", status |-> "empty", slot |-> 0 ]
          /\ StackFrame({"banner"})
     ELSE /\ \E i \in SubmitSlots :
               /\ kSub[i].pc = "idle"
               /\ kSub' = [ kSub EXCEPT ![i] = [ pc |-> "post", batch |-> kPending ] ]
          /\ kSaving' = TRUE
          /\ kRuns' = [ kRuns EXCEPT !.submits = @ + 1 ]
          /\ kObs' = NoStackObs
          /\ StackFrame({"sub", "saving", "runs"})

\* catch and finally of handleSubmitFiles.
StackSubmitFailed(i, call) ==
  /\ kSub' = [ kSub EXCEPT ![i] = IdleSubmit ]
  /\ kBanner' = "Failed to submit files"
  /\ kSaving' = FALSE
  /\ kObs' = [ call |-> call, status |-> "err", slot |-> i ]

\* POST /requests/:id/result-files of a submit resolves.
StackPost ==
  \E i \in SubmitSlots, o \in {"ok", "err", "auth"} :
    /\ kSub[i].pc = "post"
    /\ CASE o = "ok" ->
              /\ kSrv' = kSrv \cup kSub[i].batch
              /\ kPosts' = [ f \in FileNames |->
                               IF f \in kSub[i].batch THEN kPosts[f] + 1 ELSE kPosts[f] ]
              /\ kSub' = [ kSub EXCEPT ![i].pc = "put" ]
              /\ kObs' = [ call |-> "POST /requests/:id/result-files", status |-> "ok",
                           slot |-> i ]
              /\ StackFrame({"srv", "posts", "sub"})
         [] o = "err" ->
              /\ StackSubmitFailed(i, "POST /requests/:id/result-files")
              /\ StackFrame({"sub", "banner", "saving"})
         [] o = "auth" -> StackReload("POST /requests/:id/result-files")

\* saveRequest({...localReq, status: COMPLETED}) of a submit resolves.
StackPut ==
  \E i \in SubmitSlots, o \in {"ok", "err", "auth"} :
    /\ kSub[i].pc = "put"
    /\ CASE o = "ok" ->
              /\ kSub' = [ kSub EXCEPT ![i].pc = "get" ]
              /\ kObs' = [ call |-> "PUT /requests/:id", status |-> "ok", slot |-> i ]
              /\ StackFrame({"sub"})
         [] o = "err" ->
              /\ StackSubmitFailed(i, "PUT /requests/:id")
              /\ StackFrame({"sub", "banner", "saving"})
         [] o = "auth" -> StackReload("PUT /requests/:id")

\* refreshRequest of a submit resolves; setPendingFiles([]) and onUpdate
\* follow a success.
StackGet ==
  \E i \in SubmitSlots, o \in {"ok", "err", "auth"} :
    /\ kSub[i].pc = "get"
    /\ CASE o = "ok" ->
              /\ kResult' = kSrv
              /\ kPending' = {}
              /\ kUpd' = TRUE
              /\ kSub' = [ kSub EXCEPT ![i].pc = "email" ]
              /\ kObs' = [ call |-> "GET /requests/:id", status |-> "ok", slot |-> i ]
              /\ StackFrame({"result", "pending", "upd", "sub"})
         [] o = "err" ->
              /\ StackSubmitFailed(i, "GET /requests/:id")
              /\ StackFrame({"sub", "banner", "saving"})
         [] o = "auth" -> StackReload("GET /requests/:id")

\* sendEmailNotification of a submit resolves; it reports its own failures
\* in its return value.
StackEmail ==
  \E i \in SubmitSlots, o \in {"ok", "err"} :
    /\ kSub[i].pc = "email"
    /\ kSub' = [ kSub EXCEPT ![i] = IdleSubmit ]
    /\ kBanner' = "Files submitted successfully."
    /\ kSaving' = FALSE
    /\ kObs' = [ call |-> "POST /notifications/email", status |-> o, slot |-> i ]
    /\ StackFrame({"sub", "banner", "saving"})

\* Delete on a saved row: without a resolvable id the row is only taken out
\* of the list, otherwise the DELETE call starts under isSavingResults.
StackRemoveExisting ==
  /\ kDel.pc = "idle"
  /\ kRuns.deletes < MaxDeletes
  /\ \E f \in kResult, resolvedId \in BOOLEAN :
       IF ~resolvedId
       THEN /\ kResult' = kResult \ {f}
            /\ kBanner' = "Removed from stack."
            /\ kRuns' = [ kRuns EXCEPT !.deletes = @ + 1 ]
            /\ kObs' = [ call |-> "handleRemoveExistingFile", status |-> "local", slot |-> 0 ]
            /\ StackFrame({"result", "banner", "runs"})
       ELSE /\ kDel' = [ pc |-> "delete", file |-> f ]
            /\ kSaving' = TRUE
            /\ kRuns' = [ kRuns EXCEPT !.deletes = @ + 1 ]
            /\ kObs' = NoStackObs
            /\ StackFrame({"del", "saving", "runs"})

\* catch and finally of handleRemoveExistingFile.
StackDeleteFailed(call) ==
  /\ kDel' = IdleDelete
  /\ kBanner' = "Failed to delete file"
  /\ kSaving' = FALSE
  /\ kObs' = [ call |-> call, status |-> "err", slot |-> 0 ]

\* DELETE /requests/:id/result-files/:fileId resolves.
StackDeleteSettles ==
  /\ kDel.pc = "delete"
  /\ \E o \in {"ok", "err", "auth"} :
       CASE o = "ok" ->
              /\ kSrv' = kSrv \ {kDel.file}
              /\ kDel' = [ kDel EXCEPT !.pc = "get" ]
              /\ kObs' = [ call |-> "DELETE /requests/:id/result-files/:fileId",
                           status |-> "ok", slot |-> 0 ]
              /\ StackFrame({"srv", "del"})
         [] o = "err" ->
              /\ StackDeleteFailed("DELETE /requests/:id/result-files/:fileId")
              /\ StackFrame({"del", "banner", "saving"})
         [] o = "auth" -> StackReload("DELETE /requests/:id/result-files/:fileId")

\* refreshRequest of the delete resolves; onUpdate and the finally follow.
StackDeleteGet ==
  /\ kDel.pc = "get"
  /\ \E o \in {"ok", "err", "auth"} :
       CASE o = "ok" ->
              /\ kResult' = kSrv
              /\ kUpd' = TRUE
              /\ kDel' = IdleDelete
              /\ kSaving' = FALSE
              /\ kObs' = [ call |-> "GET /requests/:id", status |-> "ok", slot |-> 0 ]
              /\ StackFrame({"result", "upd", "del", "saving"})
         [] o = "err" ->
              /\ StackDeleteFailed("GET /requests/:id")
              /\ StackFrame({"del", "banner", "saving"})
         [] o = "auth" -> StackReload("GET /requests/:id")

StackNext ==
  \/ StackAddFiles
  \/ StackRemovePending
  \/ StackUpdateSettles
  \/ StackSubmitFiles
  \/ StackPost
  \/ StackPut
  \/ StackGet
  \/ StackEmail
  \/ StackRemoveExisting
  \/ StackDeleteSettles
  \/ StackDeleteGet

SubmitsInFlight == Cardinality({ i \in SubmitSlots : kSub[i].pc # "idle" })

\* C27: within one detail view at most one submission is in flight, the
\* submit control being disabled from its start until it settles.
C27_OneSubmitInFlight ==
  /\ SubmitsInFlight <= 1
  /\ SubmitsInFlight > 0 => kSaving

\* C28: over all submit attempts on the ticket, retries included, every file
\* of the pending buffer is posted to the result-files endpoint at most once.
C28_FilePostedAtMostOnce == \A f \in FileNames : kPosts[f] <= 1

(***************************************************************************)
(* RegistrationManagement: approving and rejecting registration requests   *)
(***************************************************************************)
MaxRegs == 2
MaxRegCalls == 3
MaxRegRuns == 3

RegIds == 1..MaxRegs

RegSlots == 1..MaxRegCalls

\* useState<number | null>(null) of 'processing'.
NoProcessing == 0

IdleRegCall == [ pc |-> "idle", id |-> 0, kind |-> "" ]

NoRegObs == [ call |-> "", status |-> "", id |-> 0 ]

\* The view after its first loadRequests: every request pending.
RegsInit ==
  /\ rSrv = [ r \in RegIds |-> "PENDING" ]
  /\ rRequests = [ r \in RegIds |-> "PENDING" ]
  /\ rProcessing = NoProcessing
  /\ rCalls = [ i \in RegSlots |-> IdleRegCall ]
  /\ rRuns = 0
  /\ rObs = NoRegObs

RegsIdle == RegsInit

\* disabled={processing === req.id} on both buttons of a pending row.
ControlsEnabled(r) == rRequests[r] = "PENDING" /\ rProcessing # r

\* handleApprove / handleReject up to the POST: setProcessing(id).
RegStart(kind) ==
  /\ \E r \in RegIds, i \in RegSlots :
       /\ ControlsEnabled(r)
       /\ rCalls[i].pc = "idle"
       /\ rCalls' = [ rCalls EXCEPT ![i] = [ pc |-> "post", id |-> r, kind |-> kind ] ]
       /\ rProcessing' = r
  /\ rRuns' = rRuns + 1
  /\ rObs' = NoRegObs
  /\ UNCHANGED <<rSrv, rRequests>>
  /\ UNCHANGED notRegsVars

handleApprove ==
  /\ rRuns < MaxRegRuns
  /\ RegStart("approve")

\* handleReject after window.confirm; a cancelled confirm returns at once.
handleReject ==
  \/ /\ rRuns < MaxRegRuns
     /\ RegStart("reject")
  \/ /\ \E r \in RegIds :
          /\ ControlsEnabled(r)
          /\ rObs' = [ call |-> "confirm", status |-> "cancel", id |-> r ]
     /\ rObs' # rObs
     /\ UNCHANGED <<rSrv, rRequests, rProcessing, rCalls, rRuns>>
     /\ UNCHANGED notRegsVars

\* 401/403 of any call: buildError reloads the page and the view goes.
RegsReload(r) ==
  /\ rRequests' = rSrv
  /\ rProcessing' = NoProcessing
  /\ rCalls' = [ i \in RegSlots |-> IdleRegCall ]
  /\ rObs' = [ call |-> "reload", status |-> "auth", id |-> r ]
  /\ UNCHANGED <<rSrv, rRuns>>

\* finally { setProcessing(null) } of either handler.
RegDone(i, status) ==
  /\ rCalls' = [ rCalls EXCEPT ![i] = IdleRegCall ]
  /\ rProcessing' = NoProcessing
  /\ rObs' = [ call |-> rCalls[i].kind, status |-> status, id |-> rCalls[i].id ]

\* POST /registration-requests/:id/approve|reject resolves; the server
\* refuses a request that is no longer pending.
RegPostSettles ==
  /\ \E i \in RegSlots, o \in {"ok", "err", "auth"} :
       /\ rCalls[i].pc = "post"
       /\ (rSrv[rCalls[i].id] # "PENDING") => o # "ok"
       /\ CASE o = "ok" ->
                 /\ rSrv' = [ rSrv EXCEPT ![rCalls[i].id] =
                                IF rCalls[i].kind = "approve" THEN "APPROVED" ELSE "REJECTED" ]
                 /\ rCalls' = [ rCalls EXCEPT ![i].pc = "load" ]
                 /\ rObs' = NoRegObs
                 /\ UNCHANGED <<rRequests, rProcessing, rRuns>>
            [] o = "err" ->
                 /\ RegDone(i, "err")
                 /\ UNCHANGED <<rSrv, rRequests, rRuns>>
            [] o = "auth" -> RegsReload(rCalls[i].id)
  /\ UNCHANGED notRegsVars

\* loadRequests of a handler resolves; it logs its own failures.
RegLoadSettles ==
  /\ \E i \in RegSlots, o \in {"ok", "err", "auth"} :
       /\ rCalls[i].pc = "load"
       /\ CASE o = "ok" ->
                 /\ rRequests' = rSrv
                 /\ RegDone(i, "ok")
                 /\ UNCHANGED <<rSrv, rRuns>>
            [] o = "err" ->
                 /\ RegDone(i, "ok")
                 /\ UNCHANGED <<rSrv, rRequests, rRuns>>
            [] o = "auth" -> RegsReload(rCalls[i].id)
  /\ UNCHANGED notRegsVars

RegsNext == handleApprove \/ handleReject \/ RegPostSettles \/ RegLoadSettles

RegCallsInFlight(r) ==
  Cardinality({ i \in RegSlots : rCalls[i].pc # "idle" /\ rCalls[i].id = r })

\* C30: while an approve or reject call for a registration request is in
\* flight its controls are disabled, so no request has two calls in flight.
C30_ControlsDisabledWhileInFlight ==
  \A r \in RegIds :
    /\ RegCallsInFlight(r) <= 1
    /\ RegCallsInFlight(r) > 0 => ~ControlsEnabled(r)

AuxIdle == FetchIdle /\ LoginIdle /\ UsersIdle /\ FormIdle /\ StackIdle /\ RegsIdle

(***************************************************************************)
(* Specifications                                                          *)
(***************************************************************************)
TreeStart == TreeInit /\ ViewIdle /\ MainIdle /\ StatIdle /\ ErrIdle /\ AuxIdle

SpecTree == TreeStart /\ [][TreeNext]_vars

ViewStart == ViewInit /\ TreeInit /\ MainIdle /\ StatIdle /\ ErrIdle /\ AuxIdle

SpecView == ViewStart /\ [][ViewNext]_vars

Init == MainInit /\ TreeInit /\ ViewIdle /\ StatIdle /\ ErrIdle /\ AuxIdle

Spec == Init /\ [][MainNext]_vars

\* The who-am-I call is eventually answered and the session check runs to
\* its end.
SpecLive ==
  /\ Init
  /\ [][MainNext]_vars
  /\ WF_vars(CheckSessionNoToken)
  /\ WF_vars(CheckSessionResolve)

StatStart == StatInit /\ TreeInit /\ ViewIdle /\ MainIdle /\ ErrIdle /\ AuxIdle

SpecStats == StatStart /\ [][StatNext]_vars

ErrStart == ErrInit /\ TreeInit /\ ViewIdle /\ MainIdle /\ StatIdle /\ AuxIdle

SpecError == ErrStart /\ [][ErrNext]_vars

CoreIdle == TreeInit /\ ViewIdle /\ MainIdle /\ StatIdle /\ ErrIdle

FetchStart == FetchInit /\ CoreIdle /\ LoginIdle /\ UsersIdle /\ FormIdle /\ StackIdle /\ RegsIdle

SpecFetch == FetchStart /\ [][FetchNext]_vars

ProviderStart == LoginInit /\ CoreIdle /\ FetchIdle /\ UsersIdle /\ FormIdle /\ StackIdle /\ RegsIdle

SpecProvider == ProviderStart /\ [][LoginNext]_vars

UsersStart == UsersInit /\ CoreIdle /\ FetchIdle /\ LoginIdle /\ FormIdle /\ StackIdle /\ RegsIdle

SpecUsers == UsersStart /\ [][UsersNext]_vars

FormStart == FormInit /\ CoreIdle /\ FetchIdle /\ LoginIdle /\ UsersIdle /\ StackIdle /\ RegsIdle

SpecForm == FormStart /\ [][FormNext]_vars

StackStart == StackInit /\ CoreIdle /\ FetchIdle /\ LoginIdle /\ UsersIdle /\ FormIdle /\ RegsIdle

SpecStack == StackStart /\ [][StackNext]_vars

RegsStart == RegsInit /\ CoreIdle /\ FetchIdle /\ LoginIdle /\ UsersIdle /\ FormIdle /\ StackIdle

SpecRegs == RegsStart /\ [][RegsNext]_vars


====
